---- MODULE Spec2Model ----
(***************************************************************************)
(* The client-side runtime of the ATS bridge (transport.rs): an            *)
(* AspireClient shared by several threads, the process-wide callback       *)
(* registry, and the server at the other end of the connection.            *)
(*                                                                         *)
(* JSON values (serde_json::Value) are tagged records; an object carries   *)
(* a function from its member names to values, so that `v.get(k)` is       *)
(* membership in the function's domain.                                    *)
(***************************************************************************)
EXTENDS Integers, Sequences, FiniteSets, TLC

\* ------------------------------------------------------------------ bounds
NumThreads == 2
MaxId == 2
MaxSent == 2
MaxInbox == 2
MaxConns == 2
MaxCallbacks == 1
MaxListeners == 2
MaxDisconnects == 1
MaxLifecycleDisconnects == 2
MaxSkipped == 1
MaxLifecycleSent == 1
MaxCancels == 2
MaxTokenSent == 1
MaxRegistrations == 3
MaxUnregisters == 2
MaxHandleCalls == 3
MaxLazySent == 1

Threads == 1..NumThreads

\* ------------------------------------------------------- serde_json::Value
Null == [t |-> "null"]
Bool(b) == [t |-> "bool", b |-> b]
Num(n) == [t |-> "num", n |-> n]
Str(s) == [t |-> "str", s |-> s]
Arr(a) == [t |-> "arr", a |-> a]
Obj(o) == [t |-> "obj", o |-> o]

\* Value::get(key).is_some() and Value::get(key).unwrap()
Has(v, k) == v.t = "obj" /\ k \in DOMAIN v.o
Get(v, k) == v.o[k]

\* v.get(key).and_then(|x| x.as_str()).unwrap_or(dflt)
StrOr(v, k, dflt) == IF Has(v, k) /\ Get(v, k).t = "str" THEN Get(v, k).s ELSE dflt

\* v.get(key).and_then(|x| x.as_u64()); -1 stands for None
U64Of(v, k) == IF Has(v, k) /\ Get(v, k).t = "num" /\ Get(v, k).n >= 0 THEN Get(v, k).n ELSE -1

\* mutant: the members must be strings as well
IsMarshalledHandleOfStrings(value) ==
    /\ Has(value, "$handle") /\ Get(value, "$handle").t = "str"
    /\ Has(value, "$type") /\ Get(value, "$type").t = "str"

is_marshalled_handle(value) == Has(value, "$handle") /\ Has(value, "$type")

is_ats_error(value) == Has(value, "$error")

wrap_if_handle(value) == IF ~is_marshalled_handle(value) THEN value ELSE value

\* ------------------------------------------------------------------- state
VARIABLES
    next_id,              \* AspireClient.next_id
    connected,            \* AspireClient.connected
    conn,                 \* AspireClient.conn: 0 is None, k > 0 the k-th connection opened
    connLock,             \* the thread holding the Mutex around conn, 0 when free
    disconnect_callbacks, \* AspireClient.disconnect_callbacks, in registration order
    registry,             \* CALLBACK_REGISTRY: callback id -> closure
    regLock,              \* the thread holding the Mutex around CALLBACK_REGISTRY, 0 when free
    regPoisoned,          \* that Mutex was poisoned by a panic under its guard
    callback_counter,     \* CALLBACK_COUNTER
    stack,                \* per thread, the frames of the operations it is inside (innermost first)
    inbox,                \* messages the server wrote on the current connection, not yet read
    sent,                 \* how many messages the server has written
    opened,               \* how many connections have been opened
    closed,               \* how many disconnect() calls have begun
    epoch,                \* how many times the connection slot has been assigned
    skipped,              \* how many connect() calls found the client connected
    cancelled,            \* CancellationToken.cancelled
    callbacks,            \* CancellationToken.callbacks: the continuations stored
    ran,                  \* history: the continuations run, in order
    registered,           \* history: the continuations stored or run by register, in order
    cancels,              \* how many cancel() calls have begun
    issued,               \* history: the ids register_callback has returned, in order
    unregistered,         \* history: the unregister_callback calls and what they returned
    proxies,              \* the lazy collections (AspireList, AspireDict): their fields
    wire,                 \* what the client has written on the connection, chunk by chunk
    env,                  \* the process environment: REMOTE_APP_HOST_SOCKET_PATH
    socket_path,          \* AspireClient.socket_path, None while no client is constructed
    booted,               \* history: what the bootstrap connect() calls returned
    eof,                  \* the connections whose peer has closed its end
    clock,                \* the system clock, in nanoseconds
    token_ids,            \* history: the ids register_cancellation has returned
    input,                \* the argument a function of the runtime is applied to
    output,               \* what it returned
    calls,                \* history: request id -> the call that drew it and its outcome
    log,                  \* history: reads, writes and losses on the connection and
                          \* callback lookups and runs, in order
    fired                 \* history: disconnect listeners run, in order

vars == <<next_id, connected, conn, connLock, disconnect_callbacks, registry, regLock,
          regPoisoned, callback_counter, stack, inbox, sent, opened, closed, calls,
          log, fired, epoch, skipped, cancelled, callbacks, ran, registered, cancels,
          issued, unregistered, proxies, wire, input, output, env, socket_path,
          booted, eof, clock, token_ids>>

clientVars == <<next_id, connected, conn, connLock, disconnect_callbacks>>
registryVars == <<registry, regLock, regPoisoned, callback_counter>>
serverVars == <<inbox, sent>>
ghostVars == <<opened, closed, fired, epoch, skipped>>
tokenVars == <<cancelled, callbacks, ran, registered, cancels>>
registryHistory == <<issued, unregistered>>
lazyVars == <<proxies>>
wireVars == <<wire>>
codecVars == <<input, output>>
bootVars == <<env, socket_path, booted>>
peerVars == <<eof>>
clockVars == <<clock, token_ids>>

NoFn == [k \in {} |-> Null]

\* Option<T>
None == [some |-> FALSE]
Some(x) == [some |-> TRUE, v |-> x]

\* The path of the AppHost endpoint
SocketPath == "/tmp/apphost.sock"

\* AspireClient::new and the lazy_static registries
InitClient ==
    /\ next_id = 1
    /\ connected = FALSE
    /\ conn = 0
    /\ connLock = 0
    /\ disconnect_callbacks = <<>>
    /\ registry = NoFn
    /\ regLock = 0
    /\ regPoisoned = FALSE
    /\ callback_counter = 0
    /\ stack = [t \in Threads |-> <<>>]
    /\ inbox = <<>>
    /\ sent = 0
    /\ opened = 0
    /\ closed = 0
    /\ epoch = 0
    /\ skipped = 0
    /\ cancelled = FALSE
    /\ callbacks = <<>>
    /\ ran = <<>>
    /\ registered = <<>>
    /\ cancels = 0
    /\ issued = <<>>
    /\ unregistered = <<>>
    /\ calls = <<>>
    /\ log = <<>>
    /\ fired = <<>>
    /\ wire = <<>>
    /\ eof = {}
    /\ clock = 0
    /\ token_ids = <<>>

\* AspireClient::new(socket_path) in a process started with the variable set
InitProcess ==
    /\ env = Some(SocketPath)
    /\ socket_path = Some(SocketPath)
    /\ booted = <<>>

\* ... with no lazy collection built and no function applied
Init ==
    /\ InitClient
    /\ InitProcess
    /\ proxies = NoFn
    /\ input = Null
    /\ output = Null

\* ---------------------------------------------------------------- messages
\* json!({"jsonrpc": "2.0", "id": request_id, "method": method, "params": params})
RequestMessage(id, method, params) ==
    Obj(("jsonrpc" :> Str("2.0")) @@ ("id" :> Num(id)) @@ ("method" :> Str(method))
        @@ ("params" :> params))

\* json!({"jsonrpc": "2.0", "id": id, "result": value})
ReplyResult(id, value) ==
    Obj(("jsonrpc" :> Str("2.0")) @@ ("id" :> id) @@ ("result" :> value))

\* json!({"jsonrpc": "2.0", "id": id, "error": {"code": code, "message": message}})
ReplyError(id, code, message) ==
    Obj(("jsonrpc" :> Str("2.0")) @@ ("id" :> id)
        @@ ("error" :> Obj(("code" :> Num(code)) @@ ("message" :> Str(message)))))

METHOD_NOT_FOUND == -32601
\* mutant: a failed callback is reported with the code of an unknown method
CallbackFailedAsMethodNotFound == METHOD_NOT_FOUND

CALLBACK_FAILED == -32000

\* ------------------------------------------------------------ call records
Pending == [st |-> "pending", v |-> Null]
Ok(v) == [st |-> "ok", v |-> v]
Err(message) == [st |-> "err", v |-> Str(message)]
CapErr(e) == [st |-> "caperr", v |-> e]
Panicked == [st |-> "panicked", v |-> Null]

Frame(op, c) == [op |-> op, pc |-> "write", c |-> c, msg |-> Null, val |-> Null]

Top(t) == Head(stack[t])
Idle(t) == stack[t] = <<>>
InCall(t, pc) == ~Idle(t) /\ Top(t).op \in {"invoke", "cancel"} /\ Top(t).pc = pc

\* mutant: the counter is bumped before it is read (add_fetch)
fetch_add_after(x) == [ret |-> x + 1, new |-> x + 1]

\* AtomicU64::fetch_add(1): the value returned and the value stored
fetch_add(x) == [ret |-> x, new |-> x + 1]

MethodOf(op) == IF op = "invoke" THEN "invokeCapability" ELSE "cancelToken"

\* invoke_capability: json!([capability_id, args]); cancel_token: json!([token_id])
InvokeParams(capability_id, args) == Arr(<<Str(capability_id), Obj(args)>>)
CancelParams(token_id) == Arr(<<Str(token_id)>>)

\* The head of send_request: draw the request id and build the message.
\* Gives the new call record; the frame is pushed by the caller.
CallRecord(t, op, params, depth) ==
    [t |-> t, op |-> op, params |-> params, depth |-> depth, pre |-> next_id,
     id |-> fetch_add(next_id).ret, out |-> Pending, resp |-> Null]

\* CapabilityError { code, message, capability } built from the "$error" object
CapabilityError(err_obj) ==
    [code |-> StrOr(err_obj, "code", ""),
     message |-> StrOr(err_obj, "message", ""),
     capability |-> IF Has(err_obj, "capability") /\ Get(err_obj, "capability").t = "str"
                    THEN Get(err_obj, "capability") ELSE Null]

\* What invoke_capability makes of the result send_request returned
InvokeShape(result) ==
    IF is_ats_error(result) /\ Get(result, "$error").t = "obj"
    THEN CapErr(CapabilityError(Get(result, "$error")))
    ELSE Ok(wrap_if_handle(result))

\* What cancel_token makes of it: result.as_bool().unwrap_or(false)
CancelShape(result) == Ok(Bool(result.t = "bool" /\ result.b))

Shape(op, result) == IF op = "invoke" THEN InvokeShape(result) ELSE CancelShape(result)

\* What send_request makes of the response carrying its id
ResponseOutcome(op, response) ==
    IF Has(response, "error")
    THEN Err(StrOr(Get(response, "error"), "message", "Unknown error"))
    ELSE Shape(op, IF Has(response, "result") THEN Get(response, "result") ELSE Null)

\* --------------------------------------------------- server-side callbacks
\* "p0", "p1", ...: format!("p{}", i)
PKey(i) == "p" \o ToString(i)

\* mutant: the scan steps over a missing key
RECURSIVE ScanPositionalOverGaps(_, _)
ScanPositionalOverGaps(obj, i) ==
    IF i > 3 THEN <<>>
    ELSE (IF PKey(i) \in DOMAIN obj THEN <<obj[PKey(i)]>> ELSE <<>>)
         \o ScanPositionalOverGaps(obj, i + 1)

\* invoke_callback's scan of an object for p0, p1, ... up to the first gap
RECURSIVE ScanPositional(_, _)
ScanPositional(obj, i) ==
    IF PKey(i) \in DOMAIN obj
    THEN <<obj[PKey(i)]>> \o ScanPositional(obj, i + 1)
    ELSE <<>>

positional_args(args) ==
    IF args.t = "obj" THEN ScanPositional(args.o, 0)
    ELSE IF args.t # "null" THEN <<args>>
    ELSE <<>>

\* handle_callback_request's reading of the inbound message
InMethod(message) == StrOr(message, "method", "")
InParams(message) ==
    IF Has(message, "params") /\ Get(message, "params").t = "arr"
    THEN Get(message, "params").a ELSE <<>>
InCallbackId(message) ==
    IF Len(InParams(message)) >= 1 /\ InParams(message)[1].t = "str"
    THEN InParams(message)[1].s ELSE ""
InArgs(message) == IF Len(InParams(message)) >= 2 THEN InParams(message)[2] ELSE Null

\* mutant: the dispatcher goes back to the read loop without replying
AfterCallbackNoReply(f, res) == [f EXCEPT !.pc = "lock", !.msg = Null]

\* The frame of a call after its handle_callback_request got `res` from
\* invoke_callback: the reply is pending when the inbound message had an id
AfterCallback(f, res) ==
    IF Has(f.msg, "id")
    THEN [f EXCEPT !.pc = "reply",
                   !.val = IF res.st = "ok"
                           THEN ReplyResult(Get(f.msg, "id"), res.v)
                           ELSE ReplyError(Get(f.msg, "id"), CALLBACK_FAILED, res.v.s)]
    ELSE [f EXCEPT !.pc = "lock", !.msg = Null]

\* What a closure that made a nested call returns: the nested result, or null
ClosureReturn(out) == IF out.st = "ok" THEN out.v ELSE Null

\* The stack of t once its innermost call has returned: a closure waiting for
\* it returns in turn, and invoke_callback hands its value to the dispatcher;
\* a token continuation waiting for it drops the result
Returned(t, out) ==
    LET rest == Tail(stack[t]) IN
    IF rest = <<>> THEN <<>>
    ELSE IF Head(rest).pc = "closure"
    THEN <<AfterCallback(Head(rest), Ok(ClosureReturn(out)))>> \o Tail(rest)
    ELSE rest

\* The innermost call of t returns `out`; the registry guard of the closure
\* that made it (if any) is dropped
FinishWith(t, out, resp) ==
    /\ stack' = [stack EXCEPT ![t] = Returned(t, out)]
    /\ calls' = [calls EXCEPT ![Top(t).c].out = out, ![Top(t).c].resp = resp]
    /\ regLock' = IF Len(stack[t]) > 1 /\ stack[t][2].pc = "closure" THEN 0 ELSE regLock

Finish(t, out) == FinishWith(t, out, Null)

\* One read, write or loss on the connection, or one run of a closure, by
\* the call that made it
Event(e, t, m) ==
    [e |-> e, t |-> t, c |-> Top(t).c, conn |-> conn, epoch |-> epoch, m |-> m]

\* ------------------------------------------------------------ send_request
\* invoke_capability / cancel_token entered by an idle thread: send_request
\* draws the request id
Call(t, op, params) ==
    /\ Idle(t)
    /\ next_id <= MaxId
    /\ next_id' = fetch_add(next_id).new
    /\ calls' = Append(calls, CallRecord(t, op, params, 0))
    /\ stack' = [stack EXCEPT ![t] = <<Frame(op, Len(calls) + 1)>>]
    /\ UNCHANGED <<connected, conn, connLock, disconnect_callbacks, registryVars,
                   serverVars, ghostVars, log>>
    /\ UNCHANGED tokenVars
    /\ UNCHANGED registryHistory
    /\ UNCHANGED <<lazyVars, wireVars, codecVars>>
    /\ UNCHANGED <<bootVars, peerVars, clockVars>>

\* write_message under the conn mutex
CanWrite == connLock = 0

\* mutant: without a connection the request is dropped and the call goes on
\* to read
WriteRequestDropsSilently(t) ==
    /\ InCall(t, "write")
    /\ CanWrite
    /\ log' = IF conn = 0 THEN log
              ELSE Append(log, Event("write", t,
                        RequestMessage(calls[Top(t).c].id, MethodOf(Top(t).op),
                                       calls[Top(t).c].params)))
    /\ stack' = [stack EXCEPT ![t][1].pc = "lock"]
    /\ UNCHANGED <<calls, regLock>>
    /\ UNCHANGED <<clientVars, registry, regPoisoned, callback_counter, serverVars,
                   ghostVars>>
    /\ UNCHANGED tokenVars
    /\ UNCHANGED registryHistory
    /\ UNCHANGED <<lazyVars, wireVars, codecVars>>
    /\ UNCHANGED <<bootVars, peerVars, clockVars>>

\* send_request line 338: write the request, or fail when conn is None
WriteRequest(t) ==
    /\ InCall(t, "write")
    /\ CanWrite
    /\ IF conn = 0
       THEN /\ Finish(t, Err("Not connected to AppHost"))
            /\ UNCHANGED log
       ELSE /\ log' = Append(log, Event("write", t,
                        RequestMessage(calls[Top(t).c].id, MethodOf(Top(t).op),
                                       calls[Top(t).c].params)))
            /\ stack' = [stack EXCEPT ![t][1].pc = "lock"]
            /\ UNCHANGED <<calls, regLock>>
    /\ UNCHANGED <<clientVars, registry, regPoisoned, callback_counter, serverVars,
                   ghostVars>>
    /\ UNCHANGED tokenVars
    /\ UNCHANGED registryHistory
    /\ UNCHANGED <<lazyVars, wireVars, codecVars>>
    /\ UNCHANGED <<bootVars, peerVars, clockVars>>

\* read_message lines 381-382: take the conn mutex for the whole read
ReadLock(t) ==
    /\ InCall(t, "lock")
    /\ connLock = 0
    /\ IF conn = 0
       THEN /\ Finish(t, Err("Not connected"))
            /\ UNCHANGED connLock
       ELSE /\ connLock' = t
            /\ stack' = [stack EXCEPT ![t][1].pc = "recv"]
            /\ UNCHANGED <<calls, regLock>>
    /\ UNCHANGED <<next_id, connected, conn, disconnect_callbacks, registry, regPoisoned,
                   callback_counter, serverVars, ghostVars, log>>
    /\ UNCHANGED tokenVars
    /\ UNCHANGED registryHistory
    /\ UNCHANGED <<lazyVars, wireVars, codecVars>>
    /\ UNCHANGED <<bootVars, peerVars, clockVars>>

\* The events of one read_message: the message decoded, then the k messages
\* that followed it into the BufReader and are dropped with it
ReadEvents(t, k) ==
    <<Event("read", t, Head(inbox))>>
    \o [i \in 1..k |-> Event("lost", t, inbox[i + 1])]

\* mutant: the loop takes any response as its own, whatever id it carries
ReceivedAnyId(t, m) ==
    IF Has(m, "method")
    THEN /\ stack' = [stack EXCEPT ![t][1].pc = "dispatch", ![t][1].msg = m]
         /\ UNCHANGED <<calls, regLock>>
    ELSE FinishWith(t, ResponseOutcome(Top(t).op, m), m)

\* mutant: the loop looks at the id before it looks for a method
ReceivedIdFirst(t, m) ==
    IF U64Of(m, "id") = calls[Top(t).c].id
    THEN FinishWith(t, ResponseOutcome(Top(t).op, m), m)
    ELSE IF Has(m, "method")
    THEN /\ stack' = [stack EXCEPT ![t][1].pc = "dispatch", ![t][1].msg = m]
         /\ UNCHANGED <<calls, regLock>>
    ELSE /\ stack' = [stack EXCEPT ![t][1].pc = "lock"]
         /\ UNCHANGED <<calls, regLock>>

\* send_request lines 344-362: what the loop does with the message read
Received(t, m) ==
    IF Has(m, "method")
    THEN /\ stack' = [stack EXCEPT ![t][1].pc = "dispatch", ![t][1].msg = m]
         /\ UNCHANGED <<calls, regLock>>
    ELSE IF U64Of(m, "id") = calls[Top(t).c].id
    THEN FinishWith(t, ResponseOutcome(Top(t).op, m), m)
    ELSE /\ stack' = [stack EXCEPT ![t][1].pc = "lock"]
         /\ UNCHANGED <<calls, regLock>>

\* read_message lines 384-415 through a fresh BufReader, then the loop body
\* of send_request up to the next blocking point
ReadMessage(t, k) ==
    /\ InCall(t, "recv")
    /\ inbox # <<>>
    /\ k \in 0..(Len(inbox) - 1)
    /\ inbox' = SubSeq(inbox, k + 2, Len(inbox))
    /\ log' = log \o ReadEvents(t, k)
    /\ connLock' = 0
    /\ Received(t, Head(inbox))
    /\ UNCHANGED <<next_id, connected, conn, disconnect_callbacks, registry, regPoisoned,
                   callback_counter, sent, ghostVars>>
    /\ UNCHANGED tokenVars
    /\ UNCHANGED registryHistory
    /\ UNCHANGED <<lazyVars, wireVars, codecVars>>
    /\ UNCHANGED <<bootVars, peerVars, clockVars>>

\* ------------------------------------------------- handle_callback_request
\* mutant: an unknown method is answered like a failed callback
UnknownMethodAsCallbackFailure(t) ==
    /\ InCall(t, "dispatch")
    /\ InMethod(Top(t).msg) # "invokeCallback"
    /\ stack' = [stack EXCEPT ![t][1] =
          AfterCallback(Top(t), Err("Unknown method: " \o InMethod(Top(t).msg)))]
    /\ UNCHANGED <<clientVars, registryVars, serverVars, ghostVars, calls, log>>
    /\ UNCHANGED tokenVars
    /\ UNCHANGED registryHistory
    /\ UNCHANGED <<lazyVars, wireVars, codecVars>>
    /\ UNCHANGED <<bootVars, peerVars, clockVars>>

\* lines 424-433: a method other than invokeCallback
UnknownMethod(t) ==
    /\ InCall(t, "dispatch")
    /\ InMethod(Top(t).msg) # "invokeCallback"
    /\ stack' = [stack EXCEPT ![t][1] =
          IF Has(Top(t).msg, "id")
          THEN [Top(t) EXCEPT !.pc = "reply",
                  !.val = ReplyError(Get(Top(t).msg, "id"), METHOD_NOT_FOUND,
                                     "Unknown method: " \o InMethod(Top(t).msg))]
          ELSE [Top(t) EXCEPT !.pc = "lock", !.msg = Null]]
    /\ UNCHANGED <<clientVars, registryVars, serverVars, ghostVars, calls, log>>
    /\ UNCHANGED tokenVars
    /\ UNCHANGED registryHistory
    /\ UNCHANGED <<lazyVars, wireVars, codecVars>>
    /\ UNCHANGED <<bootVars, peerVars, clockVars>>

\* callback ids: format!("callback_{}_{}", counter, millis)
CallbackId(n) == "callback_" \o ToString(n)

\* A panic unwinds every call the thread is inside and poisons the registry
\* mutex when its guard is dropped by the unwinding
DeadFrame(pc) == [op |-> "dead", pc |-> pc, c |-> 0, msg |-> Null, val |-> Null]

Unwound(t) ==
    [c \in 1..Len(calls) |->
        IF \E i \in 1..Len(stack[t]) : stack[t][i].c = c
        THEN [calls[c] EXCEPT !.out = Panicked] ELSE calls[c]]

\* The closure being run by invoke_callback, by what it does
RunClosure(t, kind, args) ==
    CASE kind = "echo" ->
           /\ stack' = [stack EXCEPT ![t][1] =
                           AfterCallback(Top(t), Ok(Arr(positional_args(args))))]
           /\ UNCHANGED <<next_id, calls, regLock, regPoisoned, callback_counter>>
      [] kind = "raise" ->
           /\ stack' = [stack EXCEPT ![t] = <<DeadFrame("panicked")>>]
           /\ calls' = Unwound(t)
           /\ regPoisoned' = TRUE
           /\ UNCHANGED <<next_id, regLock, callback_counter>>
      [] kind = "nested" ->
           /\ next_id <= MaxId
           /\ next_id' = fetch_add(next_id).new
           /\ calls' = Append(calls, CallRecord(t, "invoke",
                                InvokeParams("nested", NoFn), Len(stack[t])))
           /\ stack' = [stack EXCEPT ![t] =
                           <<Frame("invoke", Len(calls) + 1)>>
                           \o <<[Top(t) EXCEPT !.pc = "closure"]>> \o Tail(stack[t])]
           /\ regLock' = t
           /\ UNCHANGED <<regPoisoned, callback_counter>>
      [] kind = "wrapper" ->
           /\ callback_counter' = fetch_add(callback_counter).new
           /\ stack' = [stack EXCEPT ![t][1].pc = "relock"]
           /\ regLock' = t
           /\ UNCHANGED <<next_id, calls, regPoisoned>>

\* invoke_callback finds the closure (lines 487-491) and calls it (line 497)
Invokes(t) ==
    /\ InCallbackId(Top(t).msg) # ""
    /\ InCallbackId(Top(t).msg) \in DOMAIN registry

\* lines 435-442 and invoke_callback: resolve the callback under the registry
\* mutex and run it with the guard held
InvokeCallback(t) ==
    /\ InCall(t, "dispatch")
    /\ InMethod(Top(t).msg) = "invokeCallback"
    /\ IF InCallbackId(Top(t).msg) = ""
       THEN /\ stack' = [stack EXCEPT ![t][1] =
                            AfterCallback(Top(t), Err("Callback ID missing"))]
            /\ UNCHANGED <<next_id, calls, regLock, regPoisoned, callback_counter>>
       ELSE /\ regLock = 0
            /\ ~regPoisoned
            /\ IF InCallbackId(Top(t).msg) \notin DOMAIN registry
               THEN /\ stack' = [stack EXCEPT ![t][1] =
                           AfterCallback(Top(t),
                              Err("Callback not found: " \o InCallbackId(Top(t).msg)))]
                    /\ UNCHANGED <<next_id, calls, regLock, regPoisoned, callback_counter>>
               ELSE RunClosure(t, registry[InCallbackId(Top(t).msg)], InArgs(Top(t).msg))
    /\ log' = IF Invokes(t)
              THEN Append(log, Event("invoke", t, Arr(positional_args(InArgs(Top(t).msg)))))
              ELSE Append(log, Event("missing", t, Str(InCallbackId(Top(t).msg))))
    /\ UNCHANGED <<connected, conn, connLock, disconnect_callbacks, registry, serverVars,
                   ghostVars>>
    /\ UNCHANGED tokenVars
    /\ UNCHANGED registryHistory
    /\ UNCHANGED <<lazyVars, wireVars, codecVars>>
    /\ UNCHANGED <<bootVars, peerVars, clockVars>>

\* CALLBACK_REGISTRY.lock() by the thread that already holds the guard (a
\* callback arriving inside a closure's nested call, or a closure that
\* registers a callback): std's Mutex either never returns or panics
WantsRegistry(t) ==
    \/ InCall(t, "relock")
    \/ /\ InCall(t, "dispatch")
       /\ InMethod(Top(t).msg) = "invokeCallback"
       /\ InCallbackId(Top(t).msg) # ""

RelockRegistry(t, outcome) ==
    /\ WantsRegistry(t)
    /\ regLock = t
    /\ IF outcome = "deadlock"
       THEN /\ stack' = [stack EXCEPT ![t][1].pc = "deadlocked"]
            /\ UNCHANGED <<calls, regLock, regPoisoned>>
       ELSE /\ stack' = [stack EXCEPT ![t] = <<DeadFrame("panicked")>>]
            /\ calls' = Unwound(t)
            /\ regLock' = 0
            /\ regPoisoned' = TRUE
    /\ UNCHANGED <<clientVars, registry, callback_counter, serverVars, ghostVars, log>>
    /\ UNCHANGED tokenVars
    /\ UNCHANGED registryHistory
    /\ UNCHANGED <<lazyVars, wireVars, codecVars>>
    /\ UNCHANGED <<bootVars, peerVars, clockVars>>

\* CALLBACK_REGISTRY.lock().unwrap() on the poisoned mutex
PoisonedLock(t) ==
    /\ WantsRegistry(t)
    /\ regLock = 0
    /\ regPoisoned
    /\ stack' = [stack EXCEPT ![t] = <<DeadFrame("panicked")>>]
    /\ calls' = Unwound(t)
    /\ UNCHANGED <<clientVars, registryVars, serverVars, ghostVars, log>>
    /\ UNCHANGED tokenVars
    /\ UNCHANGED registryHistory
    /\ UNCHANGED <<lazyVars, wireVars, codecVars>>
    /\ UNCHANGED <<bootVars, peerVars, clockVars>>

\* mutant: the reply is written twice
WriteReplyTwice(t) ==
    /\ InCall(t, "reply")
    /\ CanWrite
    /\ IF conn = 0
       THEN /\ Finish(t, Err("Not connected to AppHost"))
            /\ UNCHANGED log
       ELSE /\ log' = log \o <<Event("write", t, Top(t).val), Event("write", t, Top(t).val)>>
            /\ stack' = [stack EXCEPT ![t][1].pc = "lock", ![t][1].msg = Null,
                                      ![t][1].val = Null]
            /\ UNCHANGED <<calls, regLock>>
    /\ UNCHANGED <<clientVars, registry, regPoisoned, callback_counter, serverVars,
                   ghostVars>>
    /\ UNCHANGED tokenVars
    /\ UNCHANGED registryHistory
    /\ UNCHANGED <<lazyVars, wireVars, codecVars>>
    /\ UNCHANGED <<bootVars, peerVars, clockVars>>

\* lines 446-461: write the reply of the reverse request
WriteReply(t) ==
    /\ InCall(t, "reply")
    /\ CanWrite
    /\ IF conn = 0
       THEN /\ Finish(t, Err("Not connected to AppHost"))
            /\ UNCHANGED log
       ELSE /\ log' = Append(log, Event("write", t, Top(t).val))
            /\ stack' = [stack EXCEPT ![t][1].pc = "lock", ![t][1].msg = Null,
                                      ![t][1].val = Null]
            /\ UNCHANGED <<calls, regLock>>
    /\ UNCHANGED <<clientVars, registry, regPoisoned, callback_counter, serverVars,
                   ghostVars>>
    /\ UNCHANGED tokenVars
    /\ UNCHANGED registryHistory
    /\ UNCHANGED <<lazyVars, wireVars, codecVars>>
    /\ UNCHANGED <<bootVars, peerVars, clockVars>>

\* ------------------------------------------------------------ write_message
\* serde_json::to_string writes the members of a map in key order
KeyOrder ==
    <<"$error", "$handle", "$refExpr", "$type", "args", "cancellationToken", "capability",
      "code", "context", "error", "format", "id", "jsonrpc", "message", "method", "p0",
      "p1", "params", "result">>

RECURSIVE KeysIn(_, _)
KeysIn(keys, o) ==
    IF keys = <<>> THEN <<>>
    ELSE (IF Head(keys) \in DOMAIN o THEN <<Head(keys)>> ELSE <<>>) \o KeysIn(Tail(keys), o)

Quote(s) == "\"" \o s \o "\""

RECURSIVE ToJsonString(_)
RECURSIVE JoinValues(_)
RECURSIVE JoinMembers(_, _)

JoinValues(a) ==
    IF a = <<>> THEN ""
    ELSE ToJsonString(Head(a)) \o (IF Len(a) > 1 THEN "," \o JoinValues(Tail(a)) ELSE "")

JoinMembers(o, keys) ==
    IF keys = <<>> THEN ""
    ELSE Quote(Head(keys)) \o ":" \o ToJsonString(o[Head(keys)])
         \o (IF Len(keys) > 1 THEN "," \o JoinMembers(o, Tail(keys)) ELSE "")

\* serde_json::to_string(message): the compact text of a value
ToJsonString(v) ==
    CASE v.t = "null" -> "null"
      [] v.t = "bool" -> (IF v.b THEN "true" ELSE "false")
      [] v.t = "num" -> ToString(v.n)
      [] v.t = "str" -> Quote(v.s)
      [] v.t = "arr" -> "[" \o JoinValues(v.a) \o "]"
      [] v.t = "obj" -> "{" \o JoinMembers(v.o, KeysIn(KeyOrder, v.o)) \o "}"

\* line 371: format!("Content-Length: {}\r\n\r\n", body.len())
HeaderOf(body) == "Content-Length: " \o ToString(Len(body)) \o "\r\n\r\n"

\* One write_all on the connection
Chunk(text) == [conn |-> conn, text |-> text]

\* The message the innermost call of t hands to write_message: its request
\* (send_request line 338), or the reply of the reverse request it dispatched
Outgoing(t) ==
    IF Top(t).pc = "write"
    THEN RequestMessage(calls[Top(t).c].id, MethodOf(Top(t).op), calls[Top(t).c].params)
    ELSE Top(t).val

\* mutant: the guard on conn is dropped once the header is written
WriteHeaderUnlocked(t) ==
    /\ InCall(t, "write") \/ InCall(t, "reply")
    /\ CanWrite
    /\ IF conn = 0
       THEN /\ Finish(t, Err("Not connected to AppHost"))
            /\ UNCHANGED <<connLock, wire>>
       ELSE /\ UNCHANGED connLock
            /\ wire' = Append(wire, Chunk(HeaderOf(ToJsonString(Outgoing(t)))))
            /\ stack' = [stack EXCEPT ![t][1].pc = "body", ![t][1].val = Outgoing(t)]
            /\ UNCHANGED <<calls, regLock>>
    /\ UNCHANGED <<next_id, connected, conn, disconnect_callbacks, registry, regPoisoned,
                   callback_counter, serverVars, ghostVars, log>>
    /\ UNCHANGED tokenVars
    /\ UNCHANGED registryHistory
    /\ UNCHANGED <<lazyVars, codecVars>>
    /\ UNCHANGED <<bootVars, peerVars, clockVars>>

\* write_message lines 367-373: lock conn, fail when it is None, else
\* serialize the message and write the header
WriteHeader(t) ==
    /\ InCall(t, "write") \/ InCall(t, "reply")
    /\ CanWrite
    /\ IF conn = 0
       THEN /\ Finish(t, Err("Not connected to AppHost"))
            /\ UNCHANGED <<connLock, wire>>
       ELSE /\ connLock' = t
            /\ wire' = Append(wire, Chunk(HeaderOf(ToJsonString(Outgoing(t)))))
            /\ stack' = [stack EXCEPT ![t][1].pc = "body", ![t][1].val = Outgoing(t)]
            /\ UNCHANGED <<calls, regLock>>
    /\ UNCHANGED <<next_id, connected, conn, disconnect_callbacks, registry, regPoisoned,
                   callback_counter, serverVars, ghostVars, log>>
    /\ UNCHANGED tokenVars
    /\ UNCHANGED registryHistory
    /\ UNCHANGED <<lazyVars, codecVars>>
    /\ UNCHANGED <<bootVars, peerVars, clockVars>>

\* write_message lines 374-377: write the body, flush, and drop the guard
WriteBody(t) ==
    /\ InCall(t, "body")
    /\ wire' = Append(wire, Chunk(ToJsonString(Top(t).val)))
    /\ log' = Append(log, Event("write", t, Top(t).val))
    /\ connLock' = 0
    /\ stack' = [stack EXCEPT ![t][1].pc = "lock", ![t][1].msg = Null, ![t][1].val = Null]
    /\ UNCHANGED <<next_id, connected, conn, disconnect_callbacks, registryVars, serverVars,
                   ghostVars, calls>>
    /\ UNCHANGED tokenVars
    /\ UNCHANGED registryHistory
    /\ UNCHANGED <<lazyVars, codecVars>>
    /\ UNCHANGED <<bootVars, peerVars, clockVars>>

\* ---------------------------------------------------- connect / disconnect
\* mutant: connect() opens a connection whether or not the client is connected
ConnectAlwaysOpens(t, ok) ==
    /\ Idle(t)
    /\ IF ~ok
       THEN UNCHANGED <<stack, opened, skipped>>
       ELSE /\ opened < MaxConns
            /\ opened' = opened + 1
            /\ stack' = [stack EXCEPT ![t] =
                  <<[op |-> "connect", pc |-> "set", c |-> opened + 1, msg |-> Null,
                     val |-> Null]>>]
            /\ UNCHANGED skipped
    /\ UNCHANGED <<clientVars, registryVars, serverVars, closed, fired, epoch, calls, log>>
    /\ UNCHANGED tokenVars
    /\ UNCHANGED registryHistory
    /\ UNCHANGED <<lazyVars, wireVars, codecVars>>
    /\ UNCHANGED <<bootVars, peerVars, clockVars>>

\* connect(): a no-op when connected is already set; otherwise
\* open_connection, which may fail (ok = FALSE) leaving the client untouched
Connect(t, ok) ==
    /\ Idle(t)
    /\ IF connected
       THEN /\ skipped < MaxSkipped
            /\ skipped' = skipped + 1
            /\ UNCHANGED <<stack, opened>>
       ELSE IF ~ok
       THEN UNCHANGED <<stack, opened, skipped>>
       ELSE /\ opened < MaxConns
            /\ opened' = opened + 1
            /\ stack' = [stack EXCEPT ![t] =
                  <<[op |-> "connect", pc |-> "set", c |-> opened + 1, msg |-> Null,
                     val |-> Null]>>]
            /\ UNCHANGED skipped
    /\ UNCHANGED <<clientVars, registryVars, serverVars, closed, fired, epoch, calls, log>>
    /\ UNCHANGED tokenVars
    /\ UNCHANGED registryHistory
    /\ UNCHANGED <<lazyVars, wireVars, codecVars>>
    /\ UNCHANGED <<bootVars, peerVars, clockVars>>

\* line 260: *self.conn.lock().unwrap() = Some(conn)
ConnectSet(t) ==
    /\ ~Idle(t) /\ Top(t).op = "connect" /\ Top(t).pc = "set"
    /\ connLock = 0
    /\ conn' = Top(t).c
    /\ inbox' = <<>>
    /\ stack' = [stack EXCEPT ![t][1].pc = "store"]
    /\ epoch' = epoch + 1
    /\ UNCHANGED <<next_id, connected, connLock, disconnect_callbacks, registryVars, sent,
                   opened, closed, fired, skipped, calls, log>>
    /\ UNCHANGED tokenVars
    /\ UNCHANGED registryHistory
    /\ UNCHANGED <<lazyVars, wireVars, codecVars>>
    /\ UNCHANGED <<bootVars, peerVars, clockVars>>

\* line 261: self.connected.store(true)
ConnectStore(t) ==
    /\ ~Idle(t) /\ Top(t).op = "connect" /\ Top(t).pc = "store"
    /\ connected' = TRUE
    /\ stack' = [stack EXCEPT ![t] = <<>>]
    /\ UNCHANGED <<next_id, conn, connLock, disconnect_callbacks, registryVars, serverVars,
                   ghostVars, calls, log>>
    /\ UNCHANGED tokenVars
    /\ UNCHANGED registryHistory
    /\ UNCHANGED <<lazyVars, wireVars, codecVars>>
    /\ UNCHANGED <<bootVars, peerVars, clockVars>>

\* -------------------------------------------------------------- bootstrap
MaxBoots == 2

VarName == "REMOTE_APP_HOST_SOCKET_PATH"

\* A value of the variable that is not valid Unicode
NotUnicode == [some |-> TRUE, v |-> "<0xFF>", os |-> TRUE]

\* std::env::var(VarName): Err(VarError) when the variable is not present or
\* not Unicode
EnvVar ==
    IF env = None THEN Err("NotPresent")
    ELSE IF env = NotUnicode THEN Err("NotUnicode")
    ELSE Ok(Str(env.v))

\* the message of map_err(|_| ...) in the generated connect(), its backquotes
\* written as quotes
NotSetMessage ==
    VarName \o " environment variable not set. Run this application using 'aspire run'"

\* the message of the io::Error of open_connection
OpenFailed == "No such file or directory (os error 2)"

\* A client has been handed to the program
Booted == \E i \in 1..Len(booted) : booted[i].st = "ok"

\* mutant: the client is constructed before the variable is read
BootstrapConnectEager(t, ok) ==
    /\ Idle(t)
    /\ socket_path = None
    /\ Len(booted) < MaxBoots
    /\ socket_path' = Some(SocketPath)
    /\ booted' = Append(booted, Err(NotSetMessage))
    /\ UNCHANGED <<env, stack, opened>>
    /\ UNCHANGED <<clientVars, registryVars, serverVars, closed, fired, epoch, skipped,
                   calls, log>>
    /\ UNCHANGED <<tokenVars, registryHistory, lazyVars, wireVars, codecVars>>
    /\ UNCHANGED <<peerVars, clockVars>>

\* the generated connect(), up to open_connection inside client.connect():
\* the new client is not connected, so connect() opens its socket_path
BootstrapConnect(t, ok) ==
    /\ Idle(t)
    /\ socket_path = None
    /\ Len(booted) < MaxBoots
    /\ IF EnvVar.st = "err"
       THEN /\ booted' = Append(booted, Err(NotSetMessage))
            /\ UNCHANGED <<socket_path, stack, opened>>
       ELSE /\ socket_path' = Some(EnvVar.v.s)
            /\ IF ~ok
               THEN /\ booted' = Append(booted, Err(OpenFailed))
                    /\ UNCHANGED <<stack, opened>>
               ELSE /\ opened' = opened + 1
                    /\ stack' = [stack EXCEPT ![t] =
                          <<[op |-> "bootstrap", pc |-> "set", c |-> opened + 1,
                             msg |-> Null, val |-> Null]>>]
                    /\ UNCHANGED booted
    /\ UNCHANGED env
    /\ UNCHANGED <<clientVars, registryVars, serverVars, closed, fired, epoch, skipped,
                   calls, log>>
    /\ UNCHANGED <<tokenVars, registryHistory, lazyVars, wireVars, codecVars>>
    /\ UNCHANGED <<peerVars, clockVars>>

\* client.connect() line 260, inside the generated connect()
BootstrapSet(t) ==
    /\ ~Idle(t) /\ Top(t).op = "bootstrap" /\ Top(t).pc = "set"
    /\ connLock = 0
    /\ conn' = Top(t).c
    /\ inbox' = <<>>
    /\ stack' = [stack EXCEPT ![t][1].pc = "store"]
    /\ epoch' = epoch + 1
    /\ UNCHANGED <<next_id, connected, connLock, disconnect_callbacks, registryVars, sent,
                   opened, closed, fired, skipped, calls, log>>
    /\ UNCHANGED <<tokenVars, registryHistory, lazyVars, wireVars, codecVars>>
    /\ UNCHANGED <<bootVars, peerVars, clockVars>>

\* client.connect() line 261, and Ok(client)
BootstrapStore(t) ==
    /\ ~Idle(t) /\ Top(t).op = "bootstrap" /\ Top(t).pc = "store"
    /\ connected' = TRUE
    /\ stack' = [stack EXCEPT ![t] = <<>>]
    /\ booted' = Append(booted, Ok(Str(socket_path.v)))
    /\ UNCHANGED <<env, socket_path>>
    /\ UNCHANGED <<next_id, conn, connLock, disconnect_callbacks, registryVars, serverVars,
                   ghostVars, calls, log>>
    /\ UNCHANGED <<tokenVars, registryHistory, lazyVars, wireVars, codecVars>>
    /\ UNCHANGED <<peerVars, clockVars>>

\* on_disconnect(listener)
OnDisconnect(t, listener) ==
    /\ Idle(t)
    /\ Len(disconnect_callbacks) < MaxListeners
    /\ disconnect_callbacks' = Append(disconnect_callbacks, listener)
    /\ UNCHANGED <<next_id, connected, conn, connLock, registryVars, stack, serverVars,
                   ghostVars, calls, log>>
    /\ UNCHANGED tokenVars
    /\ UNCHANGED registryHistory
    /\ UNCHANGED <<lazyVars, wireVars, codecVars>>
    /\ UNCHANGED <<bootVars, peerVars, clockVars>>

\* What the client was like when disconnect() was called (kept for the
\* claims about what disconnect() has done when it returns)
AtDisconnect ==
    [connected |-> connected, conn |-> conn, opened |-> opened,
     connecting |-> \E u \in Threads : ~Idle(u) /\ Top(u).op = "connect",
     reading |-> \E u \in Threads : InCall(u, "recv"),
     listeners |-> disconnect_callbacks]

\* disconnect() line 318: self.connected.store(false)
Disconnect(t) ==
    /\ Idle(t)
    /\ closed' = closed + 1
    /\ connected' = FALSE
    /\ stack' = [stack EXCEPT ![t] =
          <<[op |-> "disconnect", pc |-> "close", c |-> 0, msg |-> Null,
             val |-> AtDisconnect]>>]
    /\ UNCHANGED <<next_id, conn, connLock, disconnect_callbacks, registryVars, serverVars,
                   opened, fired, epoch, skipped, calls, log>>
    /\ UNCHANGED tokenVars
    /\ UNCHANGED registryHistory
    /\ UNCHANGED <<lazyVars, wireVars, codecVars>>
    /\ UNCHANGED <<bootVars, peerVars, clockVars>>

\* mutant: releasing the connection also restarts the request ids
DisconnectCloseResetsIds(t) ==
    /\ ~Idle(t) /\ Top(t).op = "disconnect" /\ Top(t).pc = "close"
    /\ connLock = 0
    /\ conn' = 0
    /\ next_id' = 1
    /\ inbox' = <<>>
    /\ stack' = [stack EXCEPT ![t][1].pc = "fire"]
    /\ epoch' = epoch + 1
    /\ UNCHANGED <<connected, connLock, disconnect_callbacks, registryVars, sent,
                   opened, closed, fired, skipped, calls, log>>
    /\ UNCHANGED tokenVars
    /\ UNCHANGED registryHistory
    /\ UNCHANGED <<lazyVars, wireVars, codecVars>>
    /\ UNCHANGED <<bootVars, peerVars, clockVars>>

\* line 319: *self.conn.lock().unwrap() = None
DisconnectClose(t) ==
    /\ ~Idle(t) /\ Top(t).op = "disconnect" /\ Top(t).pc = "close"
    /\ connLock = 0
    /\ conn' = 0
    /\ inbox' = <<>>
    /\ stack' = [stack EXCEPT ![t][1].pc = "fire"]
    /\ epoch' = epoch + 1
    /\ UNCHANGED <<next_id, connected, connLock, disconnect_callbacks, registryVars, sent,
                   opened, closed, fired, skipped, calls, log>>
    /\ UNCHANGED tokenVars
    /\ UNCHANGED registryHistory
    /\ UNCHANGED <<lazyVars, wireVars, codecVars>>
    /\ UNCHANGED <<bootVars, peerVars, clockVars>>

\* mutant: the listeners run newest first
DisconnectFireNewestFirst(t) ==
    /\ ~Idle(t) /\ Top(t).op = "disconnect" /\ Top(t).pc = "fire"
    /\ fired' = fired \o [i \in 1..Len(disconnect_callbacks) |->
                            disconnect_callbacks[Len(disconnect_callbacks) + 1 - i]]
    /\ stack' = [stack EXCEPT ![t] = <<>>]
    /\ UNCHANGED <<clientVars, registryVars, serverVars, opened, closed, epoch, skipped,
                   calls, log>>
    /\ UNCHANGED tokenVars
    /\ UNCHANGED registryHistory
    /\ UNCHANGED <<lazyVars, wireVars, codecVars>>
    /\ UNCHANGED <<bootVars, peerVars, clockVars>>

\* lines 321-324: run every listener, in order
DisconnectFire(t) ==
    /\ ~Idle(t) /\ Top(t).op = "disconnect" /\ Top(t).pc = "fire"
    /\ fired' = fired \o disconnect_callbacks
    /\ stack' = [stack EXCEPT ![t] = <<>>]
    /\ UNCHANGED <<clientVars, registryVars, serverVars, opened, closed, epoch, skipped,
                   calls, log>>
    /\ UNCHANGED tokenVars
    /\ UNCHANGED registryHistory
    /\ UNCHANGED <<lazyVars, wireVars, codecVars>>
    /\ UNCHANGED <<bootVars, peerVars, clockVars>>

\* --------------------------------------------------------- register_callback
\* register_callback(closure): draw the counter, then insert under the mutex
\* (lock().unwrap() panics when the mutex is poisoned)
RegisterCallback(t, kind) ==
    /\ Idle(t)
    /\ callback_counter < MaxCallbacks
    /\ regLock = 0
    /\ callback_counter' = fetch_add(callback_counter).new
    /\ IF regPoisoned
       THEN /\ stack' = [stack EXCEPT ![t] = <<DeadFrame("panicked")>>]
            /\ UNCHANGED <<registry, issued>>
       ELSE /\ registry' = (CallbackId(fetch_add(callback_counter).ret) :> kind) @@ registry
            /\ issued' = Append(issued, CallbackId(fetch_add(callback_counter).ret))
            /\ UNCHANGED stack
    /\ UNCHANGED <<clientVars, regLock, regPoisoned, serverVars, ghostVars, calls, log>>
    /\ UNCHANGED tokenVars
    /\ UNCHANGED unregistered
    /\ UNCHANGED <<lazyVars, wireVars, codecVars>>
    /\ UNCHANGED <<bootVars, peerVars, clockVars>>

\* The id register_callback formats from the counter value it drew and the
\* clock: "callback_{n}_{millis}"
CallbackIdAt(n, ms) == CallbackId(n) \o "_" \o ToString(ms)

\* mutant: the id is made from the clock alone
RegisterCallbackDrawByClock(t, kind, ms) ==
    /\ Idle(t)
    /\ callback_counter < MaxRegistrations
    /\ callback_counter' = fetch_add(callback_counter).new
    /\ stack' = [stack EXCEPT ![t] =
                    <<[op |-> "register_callback", pc |-> "insert", c |-> 0, msg |-> Null,
                       val |-> [id |-> CallbackIdAt(0, ms), kind |-> kind]]>>]
    /\ UNCHANGED <<clientVars, registry, regLock, regPoisoned, serverVars, ghostVars,
                   calls, log>>
    /\ UNCHANGED tokenVars
    /\ UNCHANGED registryHistory
    /\ UNCHANGED <<lazyVars, wireVars, codecVars>>
    /\ UNCHANGED <<bootVars, peerVars, clockVars>>

\* register_callback, first half: draw the counter and read the clock; the id
\* is fixed from here on
RegisterCallbackDraw(t, kind, ms) ==
    /\ Idle(t)
    /\ callback_counter < MaxRegistrations
    /\ callback_counter' = fetch_add(callback_counter).new
    /\ stack' = [stack EXCEPT ![t] =
                    <<[op |-> "register_callback", pc |-> "insert", c |-> 0, msg |-> Null,
                       val |-> [id |-> CallbackIdAt(fetch_add(callback_counter).ret, ms),
                                kind |-> kind]]>>]
    /\ UNCHANGED <<clientVars, registry, regLock, regPoisoned, serverVars, ghostVars,
                   calls, log>>
    /\ UNCHANGED tokenVars
    /\ UNCHANGED registryHistory
    /\ UNCHANGED <<lazyVars, wireVars, codecVars>>
    /\ UNCHANGED <<bootVars, peerVars, clockVars>>

\* register_callback, second half: insert under the mutex and return the id
RegisterCallbackInsert(t) ==
    /\ ~Idle(t) /\ Top(t).op = "register_callback"
    /\ regLock = 0
    /\ IF regPoisoned
       THEN /\ stack' = [stack EXCEPT ![t] = <<DeadFrame("panicked")>>]
            /\ UNCHANGED <<registry, issued>>
       ELSE /\ registry' = (Top(t).val.id :> Top(t).val.kind) @@ registry
            /\ issued' = Append(issued, Top(t).val.id)
            /\ stack' = [stack EXCEPT ![t] = <<>>]
    /\ UNCHANGED <<clientVars, regLock, regPoisoned, callback_counter, serverVars,
                   ghostVars, calls, log>>
    /\ UNCHANGED tokenVars
    /\ UNCHANGED unregistered
    /\ UNCHANGED <<lazyVars, wireVars, codecVars>>
    /\ UNCHANGED <<bootVars, peerVars, clockVars>>

\* What a call of unregister_callback(id) came to: the bool it returned, or
\* the panic of lock().unwrap()
Unregistered(id, ret) == [id |-> id, ret |-> ret]

\* unregister_callback(id): remove the binding under the mutex and tell
\* whether there was one
UnregisterCallback(t, id) ==
    /\ Idle(t)
    /\ regLock = 0
    /\ IF regPoisoned
       THEN /\ stack' = [stack EXCEPT ![t] = <<DeadFrame("panicked")>>]
            /\ unregistered' = Append(unregistered, Unregistered(id, "panicked"))
            /\ UNCHANGED registry
       ELSE /\ registry' = [k \in DOMAIN registry \ {id} |-> registry[k]]
            /\ unregistered' = Append(unregistered,
                   Unregistered(id, IF id \in DOMAIN registry THEN "true" ELSE "false"))
            /\ UNCHANGED stack
    /\ UNCHANGED <<clientVars, regLock, regPoisoned, callback_counter, serverVars,
                   ghostVars, calls, log>>
    /\ UNCHANGED tokenVars
    /\ UNCHANGED issued
    /\ UNCHANGED <<lazyVars, wireVars, codecVars>>
    /\ UNCHANGED <<bootVars, peerVars, clockVars>>

\* ------------------------------------------------------ cancellation token
\* The id register_cancellation makes from the clock: "ct_{millis}_{nanos}"
TokenId == "ct_1_1"

\* The continuations handed to register: two plain ones and the closure of
\* register_cancellation, which calls client.cancel_token(id)
PlainContinuations == {"k1", "k2"}
CancelContinuation == "ct"

TokenFrame(op, pc, val) == [op |-> op, pc |-> pc, c |-> 0, msg |-> Null, val |-> val]
InToken(t, op, pc) == ~Idle(t) /\ Top(t).op = op /\ Top(t).pc = pc

is_cancelled == cancelled

\* cb(): thread t runs continuation k above the frames in below.  The closure
\* of register_cancellation enters cancel_token, whose result it drops
RunContinuation(t, k, below) ==
    /\ ran' = Append(ran, k)
    /\ IF k = CancelContinuation
       THEN /\ next_id <= MaxId
            /\ next_id' = fetch_add(next_id).new
            /\ calls' = Append(calls, CallRecord(t, "cancel", CancelParams(TokenId),
                                                 Len(below)))
            /\ stack' = [stack EXCEPT ![t] = <<Frame("cancel", Len(calls) + 1)>> \o below]
       ELSE /\ stack' = [stack EXCEPT ![t] = below]
            /\ UNCHANGED <<next_id, calls>>

\* token.register(k): on a cancelled token run k at once and return; otherwise
\* go on to lock the list
Register(t, k) ==
    /\ Idle(t)
    /\ IF is_cancelled
       THEN /\ RunContinuation(t, k, <<>>)
            /\ registered' = Append(registered, k)
       ELSE /\ stack' = [stack EXCEPT ![t] = <<TokenFrame("register", "push", k)>>]
            /\ UNCHANGED <<next_id, calls, ran, registered>>
    /\ UNCHANGED <<connected, conn, connLock, disconnect_callbacks, registryVars,
                   serverVars, ghostVars, log, cancelled, callbacks, cancels>>
    /\ UNCHANGED registryHistory
    /\ UNCHANGED <<lazyVars, wireVars, codecVars>>
    /\ UNCHANGED <<bootVars, peerVars, clockVars>>

\* register, second half: push under the callbacks mutex
RegisterPush(t) ==
    /\ InToken(t, "register", "push")
    /\ callbacks' = Append(callbacks, Top(t).val)
    /\ registered' = Append(registered, Top(t).val)
    /\ stack' = [stack EXCEPT ![t] = Tail(@)]
    /\ UNCHANGED <<clientVars, registryVars, serverVars, ghostVars, calls, log,
                   cancelled, ran, cancels>>
    /\ UNCHANGED registryHistory
    /\ UNCHANGED <<lazyVars, wireVars, codecVars>>
    /\ UNCHANGED <<bootVars, peerVars, clockVars>>

\* register_cancellation(token, client): register the closure that sends
\* cancelToken with the id, and return the id
register_cancellation(t) == Register(t, CancelContinuation)

\* token.cancel(): swap the flag; return if it was already set.  The frame
\* notes how long the log was when the call began
Cancel(t) ==
    /\ Idle(t)
    /\ cancels < MaxCancels
    /\ cancels' = cancels + 1
    /\ cancelled' = TRUE
    /\ stack' = IF cancelled THEN stack
                ELSE [stack EXCEPT ![t] =
                         <<[TokenFrame("cancel_fn", "take", <<>>) EXCEPT !.c = Len(log)]>>]
    /\ UNCHANGED <<clientVars, registryVars, serverVars, ghostVars, calls, log,
                   callbacks, ran, registered>>
    /\ UNCHANGED registryHistory
    /\ UNCHANGED <<lazyVars, wireVars, codecVars>>
    /\ UNCHANGED <<bootVars, peerVars, clockVars>>

\* cancel, second step: take the whole list under the callbacks mutex
CancelTake(t) ==
    /\ InToken(t, "cancel_fn", "take")
    /\ callbacks' = <<>>
    /\ stack' = [stack EXCEPT ![t] = <<[Top(t) EXCEPT !.pc = "run", !.val = callbacks]>>]
    /\ UNCHANGED <<clientVars, registryVars, serverVars, ghostVars, calls, log,
                   cancelled, ran, registered, cancels>>
    /\ UNCHANGED registryHistory
    /\ UNCHANGED <<lazyVars, wireVars, codecVars>>
    /\ UNCHANGED <<bootVars, peerVars, clockVars>>

\* cancel, the loop: run the next taken continuation; return after the last
CancelRun(t) ==
    /\ InToken(t, "cancel_fn", "run")
    /\ LET taken == Top(t).val
       IN  IF taken = <<>>
           THEN /\ stack' = [stack EXCEPT ![t] = Tail(@)]
                /\ UNCHANGED <<next_id, calls, ran>>
           ELSE RunContinuation(t, Head(taken),
                                <<[Top(t) EXCEPT !.val = Tail(taken)]>> \o Tail(stack[t]))
    /\ UNCHANGED <<connected, conn, connLock, disconnect_callbacks, registryVars,
                   serverVars, ghostVars, log, cancelled, callbacks, registered, cancels>>
    /\ UNCHANGED registryHistory
    /\ UNCHANGED <<lazyVars, wireVars, codecVars>>
    /\ UNCHANGED <<bootVars, peerVars, clockVars>>

\* ------------------------------------------------------------- token ids
MaxClock == 3
MaxTokenIds == 3

\* Nanoseconds in a millisecond, scaled down with the clock
NanosPerMilli == 2

\* format!("ct_{}_{}", millis, nanos)
TokenIdAt(millis, nanos) == "ct_" \o ToString(millis) \o "_" \o ToString(nanos)

\* Time passes
Tick ==
    /\ clock < MaxClock
    /\ clock' = clock + 1
    /\ UNCHANGED token_ids
    /\ UNCHANGED <<clientVars, registryVars, serverVars, ghostVars, stack, calls, log>>
    /\ UNCHANGED <<tokenVars, registryHistory, lazyVars, wireVars, codecVars>>
    /\ UNCHANGED <<bootVars, peerVars>>

\* register_cancellation lines 212-217: the first reading of the clock,
\* as_millis()
DrawTokenMillis(t) ==
    /\ Idle(t)
    /\ Len(token_ids)
         + Cardinality({u \in Threads : InToken(u, "register_cancellation", "nanos")})
         < MaxTokenIds
    /\ stack' = [stack EXCEPT ![t] =
          <<TokenFrame("register_cancellation", "nanos", clock \div NanosPerMilli)>>]
    /\ UNCHANGED <<clientVars, registryVars, serverVars, ghostVars, calls, log>>
    /\ UNCHANGED <<tokenVars, registryHistory, lazyVars, wireVars, codecVars>>
    /\ UNCHANGED <<bootVars, peerVars, clockVars>>

\* register_cancellation lines 218-230: the second reading, as_nanos(), makes
\* the id the call returns; token.register of the closure then runs it on a
\* cancelled token and goes on to lock the list otherwise
DrawTokenNanos(t) ==
    /\ InToken(t, "register_cancellation", "nanos")
    /\ token_ids' = Append(token_ids, TokenIdAt(Top(t).val, clock))
    /\ IF is_cancelled
       THEN /\ RunContinuation(t, CancelContinuation, <<>>)
            /\ registered' = Append(registered, CancelContinuation)
       ELSE /\ stack' = [stack EXCEPT ![t] =
                  <<TokenFrame("register", "push", CancelContinuation)>>]
            /\ UNCHANGED <<next_id, calls, ran, registered>>
    /\ UNCHANGED <<connected, conn, connLock, disconnect_callbacks, registryVars,
                   serverVars, ghostVars, log, cancelled, callbacks, cancels>>
    /\ UNCHANGED <<registryHistory, lazyVars, wireVars, codecVars>>
    /\ UNCHANGED <<bootVars, peerVars, clock>>

\* ------------------------------------------------------- lazy collections
\* struct Handle { "$handle": handle_id, "$type": type_id }
Handle(handle_id, type_id) == [handle_id |-> handle_id, type_id |-> type_id]

\* mutant: the two members are swapped
HandleToJsonSwapped(h) == Obj(("$handle" :> Str(h.type_id)) @@ ("$type" :> Str(h.handle_id)))

\* Handle::to_json
HandleToJson(h) == Obj(("$handle" :> Str(h.handle_id)) @@ ("$type" :> Str(h.type_id)))

\* serde_json::from_value::<Handle>: the derived Deserialize takes an object
\* with string members "$handle" and "$type" (other members are ignored), or
\* an array of exactly two strings; anything else is an error
HandleFromValue(v) ==
    CASE v.t = "obj" ->
           IF /\ Has(v, "$handle") /\ Get(v, "$handle").t = "str"
              /\ Has(v, "$type") /\ Get(v, "$type").t = "str"
           THEN Some(Handle(Get(v, "$handle").s, Get(v, "$type").s))
           ELSE None
      [] v.t = "arr" ->
           IF Len(v.a) = 2 /\ v.a[1].t = "str" /\ v.a[2].t = "str"
           THEN Some(Handle(v.a[1].s, v.a[2].s))
           ELSE None
      [] OTHER -> None

\* AspireList::new / AspireDict::new: the cell is set to the handle
ProxyNew(handle) ==
    [context_handle |-> handle, getter_capability_id |-> None,
     resolved_handle |-> Some(handle), returned |-> <<>>]

\* AspireList::with_getter / AspireDict::with_getter: the cell is empty
ProxyWithGetter(context_handle, getter_capability_id) ==
    [context_handle |-> context_handle, getter_capability_id |-> Some(getter_capability_id),
     resolved_handle |-> None, returned |-> <<>>]

\* The proxy is being initialised by some thread (the cell is not Sync: one
\* thread at a time is inside get_or_init)
Initialising(p) ==
    \E u \in Threads : \E i \in 1..Len(stack[u]) :
        stack[u][i].op = "ensure_handle" /\ stack[u][i].val = p

\* mutant: the getter's result is ignored
ResolvedAlwaysContext(p, out) == proxies[p].context_handle

\* What get_or_init's closure returns once the getter call has come back
Resolved(p, out) ==
    IF out.st = "ok" /\ HandleFromValue(out.v).some
    THEN HandleFromValue(out.v).v
    ELSE proxies[p].context_handle

\* handle() = ensure_handle(): resolved_handle.get_or_init(..). A set cell is
\* returned as it is; otherwise the initialiser runs: without a getter it
\* yields the context handle, with one it calls
\* invoke_capability(getter, {"context": context_handle.to_json()})
EnsureHandle(t, p) ==
    /\ Idle(t)
    /\ p \in DOMAIN proxies
    /\ ~Initialising(p)
    /\ Len(proxies[p].returned) < MaxHandleCalls
    /\ IF proxies[p].resolved_handle.some
       THEN /\ proxies' = [proxies EXCEPT
                   ![p].returned = Append(@, proxies[p].resolved_handle.v)]
            /\ UNCHANGED <<next_id, calls, stack>>
       ELSE IF ~proxies[p].getter_capability_id.some
       THEN /\ proxies' = [proxies EXCEPT
                   ![p].resolved_handle = Some(proxies[p].context_handle),
                   ![p].returned = Append(@, proxies[p].context_handle)]
            /\ UNCHANGED <<next_id, calls, stack>>
       ELSE /\ next_id <= MaxId
            /\ next_id' = fetch_add(next_id).new
            /\ calls' = Append(calls, CallRecord(t, "invoke",
                   InvokeParams(proxies[p].getter_capability_id.v,
                                "context" :> HandleToJson(proxies[p].context_handle)), 1))
            /\ stack' = [stack EXCEPT ![t] =
                   <<Frame("invoke", Len(calls) + 1),
                     [op |-> "ensure_handle", pc |-> "init", c |-> Len(calls) + 1,
                      msg |-> Null, val |-> p]>>]
            /\ UNCHANGED proxies
    /\ UNCHANGED <<connected, conn, connLock, disconnect_callbacks, registryVars,
                   serverVars, ghostVars, log>>
    /\ UNCHANGED <<tokenVars, registryHistory, wireVars, codecVars>>
    /\ UNCHANGED <<bootVars, peerVars, clockVars>>

\* mutant: a getter call that failed leaves the cell empty
EnsureHandleInitOnSuccess(t) ==
    /\ ~Idle(t) /\ Top(t).op = "ensure_handle"
    /\ LET p == Top(t).val
           h == Resolved(p, calls[Top(t).c].out)
       IN  proxies' = [proxies EXCEPT
               ![p].resolved_handle = IF calls[Top(t).c].out.st = "ok" THEN Some(h) ELSE None,
               ![p].returned = Append(@, h)]
    /\ stack' = [stack EXCEPT ![t] = Tail(@)]
    /\ UNCHANGED <<clientVars, registryVars, serverVars, ghostVars, calls, log>>
    /\ UNCHANGED <<tokenVars, registryHistory, wireVars, codecVars>>
    /\ UNCHANGED <<bootVars, peerVars, clockVars>>

\* The getter call has returned: the initialiser yields the decoded handle or
\* the context handle, the cell is set to it, and handle() returns it
EnsureHandleInit(t) ==
    /\ ~Idle(t) /\ Top(t).op = "ensure_handle"
    /\ LET p == Top(t).val
           h == Resolved(p, calls[Top(t).c].out)
       IN  proxies' = [proxies EXCEPT
               ![p].resolved_handle = Some(h),
               ![p].returned = Append(@, h)]
    /\ stack' = [stack EXCEPT ![t] = Tail(@)]
    /\ UNCHANGED <<clientVars, registryVars, serverVars, ghostVars, calls, log>>
    /\ UNCHANGED <<tokenVars, registryHistory, wireVars, codecVars>>
    /\ UNCHANGED <<bootVars, peerVars, clockVars>>

\* ------------------------------------------------------------ read_message
\* The byte stream is a sequence of one-character strings; its end is the end
\* of the stream (EOF)
IsSpace(ch) == ch \in {" ", "\t", "\r", "\n"}

\* str::trim
RECURSIVE TrimStart(_)
TrimStart(s) == IF s # <<>> /\ IsSpace(Head(s)) THEN TrimStart(Tail(s)) ELSE s

RECURSIVE TrimEnd(_)
TrimEnd(s) ==
    IF s # <<>> /\ IsSpace(s[Len(s)]) THEN TrimEnd(SubSeq(s, 1, Len(s) - 1)) ELSE s

Trim(s) == TrimEnd(TrimStart(s))

\* str::find(ch): the first index of ch, 0 for None
RECURSIVE FindFrom(_, _, _)
FindFrom(s, ch, i) ==
    IF i > Len(s) THEN 0 ELSE IF s[i] = ch THEN i ELSE FindFrom(s, ch, i + 1)

Find(s, ch) == FindFrom(s, ch, 1)

\* str::to_lowercase, on the letters the streams are written with
LowerOf(ch) == IF ch = "C" THEN "c" ELSE IF ch = "L" THEN "l" ELSE IF ch = "X" THEN "x" ELSE ch
ToLowercase(s) == [i \in 1..Len(s) |-> LowerOf(s[i])]

\* BufRead::read_line: the bytes up to and including the first "\n", or all
\* that is left at the end of the stream
ReadLine(stream) ==
    LET n == Find(stream, "\n") IN
    IF n = 0 THEN [line |-> stream, rest |-> <<>>]
    ELSE [line |-> SubSeq(stream, 1, n), rest |-> SubSeq(stream, n + 1, Len(stream))]

\* lines 388-403: the header loop. A line that trims to nothing ends it (so
\* does the end of the stream); a line with a ':' is stored under its
\* lower-cased key, a later one replacing an earlier one; any other line is
\* skipped
RECURSIVE ReadHeaders(_, _)
ReadHeaders(stream, headers) ==
    LET r == ReadLine(stream)
        line == Trim(r.line)
        idx == Find(line, ":")
    IN  IF line = <<>> THEN [headers |-> headers, rest |-> r.rest]
        ELSE IF idx # 0
        THEN ReadHeaders(r.rest,
                 (ToLowercase(Trim(SubSeq(line, 1, idx - 1)))
                     :> Trim(SubSeq(line, idx + 1, Len(line)))) @@ headers)
        ELSE ReadHeaders(r.rest, headers)

Digits == {"0", "1", "2", "3", "4", "5", "6", "7", "8", "9"}
DigitValue(ch) == CHOOSE n \in 0..9 : ToString(n) = ch

RECURSIVE Decimal(_, _)
Decimal(s, acc) == IF s = <<>> THEN acc ELSE Decimal(Tail(s), 10 * acc + DigitValue(Head(s)))

\* str::parse::<usize>: decimal digits after an optional '+'; -1 for Err
ParseUsize(s) ==
    LET digits == IF s # <<>> /\ Head(s) = "+" THEN Tail(s) ELSE s IN
    IF digits # <<>> /\ \A i \in 1..Len(digits) : digits[i] \in Digits
    THEN Decimal(digits, 0) ELSE -1

\* serde_json::from_slice, on the texts the streams carry: an integer
\* without leading zero, or the empty object; anything else is an error
FromSlice(body) ==
    IF body = <<"{", "}">> THEN Ok(Obj(NoFn))
    ELSE IF /\ body # <<>>
            /\ \A i \in 1..Len(body) : body[i] \in Digits
            /\ (Len(body) > 1 => body[1] # "0")
    THEN Ok(Num(Decimal(body, 0)))
    ELSE Err("invalid JSON")

ContentLengthKey == <<"c", "o", "n", "t", "e", "n", "t", "-", "l", "e", "n", "g", "t", "h">>

\* mutant: the body is whatever is left when the stream ends early
ReadExactShort(rest, n) ==
    IF Len(rest) < n THEN Ok(rest) ELSE Ok(SubSeq(rest, 1, n))

\* Read::read_exact: n bytes, or an error when the stream ends first
ReadExact(rest, n) ==
    IF Len(rest) < n THEN Err("failed to fill whole buffer") ELSE Ok(SubSeq(rest, 1, n))

\* read_message lines 384-414 on an open connection: the message, or the error
Decode(stream) ==
    LET h == ReadHeaders(stream, <<>>) IN
    IF ContentLengthKey \notin DOMAIN h.headers THEN Err("Missing content-length")
    ELSE IF ParseUsize(h.headers[ContentLengthKey]) < 0 THEN Err("invalid digit found in string")
    ELSE LET body == ReadExact(h.rest, ParseUsize(h.headers[ContentLengthKey])) IN
         IF body.st # "ok" THEN body ELSE FromSlice(body.v)

\* ------------------------------------------------------ ReferenceExpression
ReferenceExpression(format, args) == [format |-> format, args |-> args]

\* ReferenceExpression::to_json: {"$refExpr": {"format": .., "args": [..]}}
RefExprToJson(r) ==
    Obj("$refExpr" :> Obj(("format" :> Str(r.format)) @@ ("args" :> Arr(r.args))))

\* serde_json::from_value::<ReferenceExpression>: the derived Deserialize
\* takes an object with a string member "format" and an array member "args",
\* or an array of exactly those two; anything else is an error
RefExprFromValue(v) ==
    CASE v.t = "obj" ->
           IF /\ Has(v, "format") /\ Get(v, "format").t = "str"
              /\ Has(v, "args") /\ Get(v, "args").t = "arr"
           THEN Some(ReferenceExpression(Get(v, "format").s, Get(v, "args").a))
           ELSE None
      [] v.t = "arr" ->
           IF Len(v.a) = 2 /\ v.a[1].t = "str" /\ v.a[2].t = "arr"
           THEN Some(ReferenceExpression(v.a[1].s, v.a[2].a))
           ELSE None
      [] OTHER -> None

\* ------------------------------------------------- the functions, applied
Applied(kind) == input.t = kind /\ output = Null

UnchangedButOutput ==
    UNCHANGED <<clientVars, registryVars, serverVars, ghostVars, stack, calls, log,
                tokenVars, registryHistory, lazyVars, wireVars, input, bootVars,
                peerVars, clockVars>>

\* is_marshalled_handle(value)
ApplyIsMarshalledHandle ==
    /\ Applied("value")
    /\ output' = Bool(is_marshalled_handle(input.v))
    /\ UnchangedButOutput

\* from_value::<Handle>(handle.to_json())
ApplyHandleRoundTrip ==
    /\ Applied("handle")
    /\ output' = HandleFromValue(HandleToJson(input.v))
    /\ UnchangedButOutput

\* from_value::<ReferenceExpression>(ref_expr.to_json())
ApplyRefExprRoundTrip ==
    /\ Applied("ref_expr")
    /\ output' = RefExprFromValue(RefExprToJson(input.v))
    /\ UnchangedButOutput

\* handle_callback_request lines 435-440 and invoke_callback lines 479-495:
\* the arguments the closure of the request is given
ApplyPositionalArgs ==
    /\ Applied("request")
    /\ output' = Arr(positional_args(InArgs(input.v)))
    /\ UnchangedButOutput

\* read_message on a connection carrying the stream
ApplyDecode ==
    /\ Applied("stream")
    /\ output' = Decode(input.v.stream)
    /\ UnchangedButOutput

\* ------------------------------------------------------------------ server
\* The server writes one framed message on the open connection
ServerSend(m) ==
    /\ conn # 0
    /\ sent < MaxSent
    /\ Len(inbox) < MaxInbox
    /\ inbox' = Append(inbox, m)
    /\ sent' = sent + 1
    /\ UNCHANGED <<clientVars, registryVars, stack, ghostVars, calls, log>>
    /\ UNCHANGED tokenVars
    /\ UNCHANGED registryHistory
    /\ UNCHANGED <<lazyVars, wireVars, codecVars>>
    /\ UNCHANGED <<bootVars, peerVars, clockVars>>

\* The server closes its end of the open connection
PeerClose ==
    /\ conn # 0
    /\ conn \notin eof
    /\ eof' = eof \cup {conn}
    /\ UNCHANGED <<clientVars, registryVars, serverVars, ghostVars, stack, calls, log>>
    /\ UNCHANGED <<tokenVars, registryHistory, lazyVars, wireVars, codecVars>>
    /\ UNCHANGED <<bootVars, clockVars>>

\* mutant: at the end of the stream the loop of send_request reads again
ReadEofRetries(t) ==
    /\ InCall(t, "recv")
    /\ inbox = <<>>
    /\ conn \in eof
    /\ connLock' = 0
    /\ stack' = [stack EXCEPT ![t][1].pc = "lock"]
    /\ UNCHANGED <<calls, regLock>>
    /\ UNCHANGED <<next_id, connected, conn, disconnect_callbacks, registry, regPoisoned,
                   callback_counter, serverVars, ghostVars, log>>
    /\ UNCHANGED <<tokenVars, registryHistory, lazyVars, wireVars, codecVars>>
    /\ UNCHANGED <<bootVars, peerVars, clockVars>>

\* read_message lines 384-409 at the end of the stream: read_line returns no
\* bytes, the header loop ends with no header, and the error goes up through
\* the `?` of send_request line 341
ReadEof(t) ==
    /\ InCall(t, "recv")
    /\ inbox = <<>>
    /\ conn \in eof
    /\ connLock' = 0
    /\ Finish(t, Decode(<<>>))
    /\ UNCHANGED <<next_id, connected, conn, disconnect_callbacks, registry, regPoisoned,
                   callback_counter, serverVars, ghostVars, log>>
    /\ UNCHANGED <<tokenVars, registryHistory, lazyVars, wireVars, codecVars>>
    /\ UNCHANGED <<bootVars, peerVars, clockVars>>

\* Responses: {"jsonrpc": "2.0", "id": id, <body>}
Response(id, body) == Obj(("jsonrpc" :> Str("2.0")) @@ ("id" :> Num(id)) @@ body)

\* Reverse requests: {"jsonrpc": "2.0", "id": id, "method": method, "params": [..]}
Reverse(id, method, params) ==
    Obj(("jsonrpc" :> Str("2.0")) @@ ("id" :> id) @@ ("method" :> Str(method))
        @@ ("params" :> Arr(params)))

HandleValue == Obj(("$handle" :> Str("h1")) @@ ("$type" :> Str("T")))
ErrorEnvelope ==
    Obj("$error" :> Obj(("code" :> Str("HANDLE_NOT_FOUND")) @@ ("message" :> Str("bad"))
                        @@ ("capability" :> Str("X/op"))))
ErrorEnvelopeNoCap ==
    Obj("$error" :> Obj(("code" :> Str("INTERNAL_ERROR")) @@ ("message" :> Str("bad"))))
ErrorEnvelopeStr == Obj("$error" :> Str("boom"))
RpcError == Obj(("code" :> Num(-32603)) @@ ("message" :> Str("fail")))
RpcErrorNoMessage == Obj("code" :> Num(-32603))

PositionalArgs == Obj(("p0" :> Num(42)) @@ ("p1" :> Str("x")))

InboundId == Num(99)

\* ------------------------------------------------------------ specifications
Requests ==
    {<<"invoke", InvokeParams("cap", NoFn)>>, <<"cancel", CancelParams("ct_1")>>}

\* Calls from several threads against a server that answers, with the client
\* connected, disconnected and reconnected meanwhile
Bodies == {"result" :> Num(7), "result" :> Bool(TRUE), NoFn}

Messages == {Response(i, b) : i \in 1..MaxId, b \in Bodies}

Next ==
    \/ \E t \in Threads, r \in Requests : Call(t, r[1], r[2])
    \/ \E t \in Threads : WriteRequest(t)
    \/ \E t \in Threads : ReadLock(t)
    \/ \E t \in Threads, k \in 0..MaxInbox : ReadMessage(t, k)
    \/ \E t \in Threads, ok \in BOOLEAN : ~connected /\ Connect(t, ok)
    \/ \E t \in Threads : ConnectSet(t)
    \/ \E t \in Threads : ConnectStore(t)
    \/ \E t \in Threads : closed < MaxDisconnects /\ Disconnect(t)
    \/ \E t \in Threads : DisconnectClose(t)
    \/ \E t \in Threads : DisconnectFire(t)
    \/ \E m \in Messages : ServerSend(m)

Spec == Init /\ [][Next]_vars

\* The shapes a response can have: results that are handles, error envelopes,
\* and JSON-RPC error members of any JSON type
ShapeBodies ==
    {"result" :> HandleValue, "result" :> ErrorEnvelope, "result" :> ErrorEnvelopeNoCap,
     "result" :> ErrorEnvelopeStr, "error" :> RpcError, "error" :> RpcErrorNoMessage,
     ("result" :> Num(7)) @@ ("error" :> Null)}

ShapeMessages == {Response(i, b) : i \in 1..MaxId, b \in ShapeBodies}

NextShape ==
    \/ \E t \in Threads, r \in Requests : Call(t, r[1], r[2])
    \/ \E t \in Threads : WriteRequest(t)
    \/ \E t \in Threads : ReadLock(t)
    \/ \E t \in Threads, k \in 0..MaxInbox : ReadMessage(t, k)
    \/ \E t \in Threads, ok \in BOOLEAN : ~connected /\ Connect(t, ok)
    \/ \E t \in Threads : ConnectSet(t)
    \/ \E t \in Threads : ConnectStore(t)
    \/ \E m \in ShapeMessages : ServerSend(m)

SpecShape == Init /\ [][NextShape]_vars

\* Reverse requests arriving while calls are pending, for closures that
\* return at once ("echo"), that call invoke_capability themselves ("nested")
\* and that go through a generated wrapper registering a callback ("wrapper")
Closures == {"echo", "nested", "wrapper"}

CallbackMessages ==
    {Response(i, "result" :> Num(7)) : i \in 1..MaxId}
    \cup {Reverse(InboundId, "invokeCallback", <<Str(CallbackId(0)), PositionalArgs>>),
          Reverse(InboundId, "ping", <<>>)}

NextCallbacks ==
    \/ \E t \in Threads : Call(t, "invoke", InvokeParams("cap", NoFn))
    \/ \E t \in Threads : WriteRequest(t)
    \/ \E t \in Threads : ReadLock(t)
    \/ \E t \in Threads, k \in 0..MaxInbox : ReadMessage(t, k)
    \/ \E t \in Threads : UnknownMethod(t)
    \/ \E t \in Threads : InvokeCallback(t)
    \/ \E t \in Threads, o \in {"deadlock", "panic"} : RelockRegistry(t, o)
    \/ \E t \in Threads : PoisonedLock(t)
    \/ \E t \in Threads : WriteReply(t)
    \/ \E t \in Threads, ok \in BOOLEAN : ~connected /\ Connect(t, ok)
    \/ \E t \in Threads : ConnectSet(t)
    \/ \E t \in Threads : ConnectStore(t)
    \/ \E t \in Threads : closed < MaxDisconnects /\ Disconnect(t)
    \/ \E t \in Threads : DisconnectClose(t)
    \/ \E t \in Threads : DisconnectFire(t)
    \/ \E t \in Threads, k \in Closures : RegisterCallback(t, k)
    \/ \E m \in CallbackMessages : ServerSend(m)

SpecCallbacks == Init /\ [][NextCallbacks]_vars

\* Reverse requests that cannot be served: the callback id is unbound (never
\* registered, or unregistered again), it is missing from the params, or the
\* closure panics ("raise")
FailingClosures == {"echo", "raise"}

ErrorMessages ==
    {Response(i, "result" :> Num(7)) : i \in 1..MaxId}
    \cup {Reverse(InboundId, "invokeCallback", <<Str(CallbackId(0)), PositionalArgs>>),
          Reverse(InboundId, "invokeCallback", <<>>)}

NextErrors ==
    \/ \E t \in Threads : Call(t, "invoke", InvokeParams("cap", NoFn))
    \/ \E t \in Threads : WriteRequest(t)
    \/ \E t \in Threads : ReadLock(t)
    \/ \E t \in Threads, k \in 0..MaxInbox : ReadMessage(t, k)
    \/ \E t \in Threads : InvokeCallback(t)
    \/ \E t \in Threads : PoisonedLock(t)
    \/ \E t \in Threads : WriteReply(t)
    \/ \E t \in Threads, ok \in BOOLEAN : ~connected /\ Connect(t, ok)
    \/ \E t \in Threads : ConnectSet(t)
    \/ \E t \in Threads : ConnectStore(t)
    \/ \E t \in Threads : closed < MaxDisconnects /\ Disconnect(t)
    \/ \E t \in Threads : DisconnectClose(t)
    \/ \E t \in Threads : DisconnectFire(t)
    \/ \E t \in Threads, k \in FailingClosures : RegisterCallback(t, k)
    \/ \E t \in Threads :
          /\ regPoisoned \/ CallbackId(0) \in DOMAIN registry
          /\ UnregisterCallback(t, CallbackId(0))
    \/ \E m \in ErrorMessages : ServerSend(m)

SpecErrors == Init /\ [][NextErrors]_vars

\* The life of the client: connect(), on_disconnect() and disconnect() from
\* any thread, in any order and any number of times, with calls in between;
\* each listener is registered once
Listeners == {"a", "b"}

LifecycleMessages == {Response(i, "result" :> Num(7)) : i \in 1..MaxId}

NextLifecycle ==
    \/ \E t \in Threads, ok \in BOOLEAN : Connect(t, ok)
    \/ \E t \in Threads : ConnectSet(t)
    \/ \E t \in Threads : ConnectStore(t)
    \/ \E t \in Threads, l \in Listeners :
          /\ \A i \in 1..Len(disconnect_callbacks) : disconnect_callbacks[i] # l
          /\ OnDisconnect(t, l)
    \/ \E t \in Threads : closed < MaxLifecycleDisconnects /\ Disconnect(t)
    \/ \E t \in Threads : DisconnectClose(t)
    \/ \E t \in Threads : DisconnectFire(t)
    \/ \E t \in Threads : Call(t, "invoke", InvokeParams("cap", NoFn))
    \/ \E t \in Threads : WriteRequest(t)
    \/ \E t \in Threads : ReadLock(t)
    \/ \E t \in Threads : ReadMessage(t, 0)
    \/ \E m \in LifecycleMessages : sent < MaxLifecycleSent /\ ServerSend(m)

SpecLifecycle == Init /\ [][NextLifecycle]_vars

\* ---------------------------------------------------------------- registry
\* Threads registering and unregistering callbacks at any time, with the
\* clock standing still or moving between two registrations
Millis == {0, 1}

RegistryIds == {CallbackIdAt(n, ms) : n \in 0..(MaxRegistrations - 1), ms \in Millis}

NextRegistry ==
    \/ \E t \in Threads, k \in FailingClosures, ms \in Millis : RegisterCallbackDraw(t, k, ms)
    \/ \E t \in Threads : RegisterCallbackInsert(t)
    \/ \E t \in Threads, id \in RegistryIds :
          Len(unregistered) < MaxUnregisters /\ UnregisterCallback(t, id)

SpecRegistry == Init /\ [][NextRegistry]_vars

\* A callback registered, invoked by the server any number of times while
\* calls are pending, and unregistered at any time, bound or not
BindingMessages ==
    {Reverse(InboundId, "invokeCallback", <<Str(CallbackId(0)), PositionalArgs>>)}
    \cup {Response(i, "result" :> Num(7)) : i \in 1..MaxId}

NextBinding ==
    \/ \E t \in Threads, k \in FailingClosures : RegisterCallback(t, k)
    \/ \E t \in Threads :
          Len(unregistered) < MaxUnregisters /\ UnregisterCallback(t, CallbackId(0))
    \/ \E t \in Threads, ok \in BOOLEAN : ~connected /\ Connect(t, ok)
    \/ \E t \in Threads : ConnectSet(t)
    \/ \E t \in Threads : ConnectStore(t)
    \/ \E t \in Threads : Call(t, "invoke", InvokeParams("cap", NoFn))
    \/ \E t \in Threads : WriteRequest(t)
    \/ \E t \in Threads : ReadLock(t)
    \/ \E t \in Threads : ReadMessage(t, 0)
    \/ \E t \in Threads : InvokeCallback(t)
    \/ \E t \in Threads : PoisonedLock(t)
    \/ \E t \in Threads : WriteReply(t)
    \/ \E m \in BindingMessages : ServerSend(m)

SpecBinding == Init /\ [][NextBinding]_vars

\* -------------------------------------------------------- lazy collections
\* A list and a dictionary over the same context handle, each built with new
\* or with with_getter, whose handle() is called from any thread before and
\* after connect(), against a server answering the getter in every way
ContextHandle == Handle("ctx", "Ctx")

Proxies == {"list", "dict"}

GetterOf(p) == "get_" \o p

Constructions(p) == {ProxyNew(ContextHandle), ProxyWithGetter(ContextHandle, GetterOf(p))}

InitLazy ==
    /\ InitClient
    /\ InitProcess
    /\ proxies \in {f \in [Proxies -> UNION {Constructions(p) : p \in Proxies}] :
                       \A p \in Proxies : f[p] \in Constructions(p)}
    /\ input = Null
    /\ output = Null

GetterResults ==
    {"result" :> HandleValue,
     "result" :> Arr(<<Str("h2"), Str("T")>>),
     "result" :> Num(7),
     "result" :> ErrorEnvelope,
     "error" :> RpcError}

LazyMessages == {Response(i, b) : i \in 1..MaxId, b \in GetterResults}

NextLazy ==
    \/ \E t \in Threads, p \in Proxies : EnsureHandle(t, p)
    \/ \E t \in Threads : EnsureHandleInit(t)
    \/ \E t \in Threads, ok \in BOOLEAN : ~connected /\ Connect(t, ok)
    \/ \E t \in Threads : ConnectSet(t)
    \/ \E t \in Threads : ConnectStore(t)
    \/ \E t \in Threads : WriteRequest(t)
    \/ \E t \in Threads : ReadLock(t)
    \/ \E t \in Threads : ReadMessage(t, 0)
    \/ \E m \in LazyMessages : sent < MaxLazySent /\ ServerSend(m)

SpecLazy == InitLazy /\ [][NextLazy]_vars

\* ------------------------------------------------------------------- codec
\* JSON values of every shape around the handle members
MemberValues == {Str("h1"), Null, Num(1)}

Members(k) == {NoFn} \cup {k :> v : v \in MemberValues}

CodecValues ==
    {Obj(a @@ b @@ c) : a \in Members("$handle"), b \in Members("$type"),
                        c \in Members("$error")}
    \cup {Null, Bool(TRUE), Num(0), Str("$handle"),
          Arr(<<Str("$handle"), Str("$type")>>)}

CodecHandles == {Handle(h, t) : h \in {"", "h1", "$type"}, t \in {"", "T", "$handle"}}

CodecRefExprs ==
    {ReferenceExpression(f, a) :
        f \in {"", "{0}", "format"},
        a \in {<<>>, <<Num(1)>>, <<HandleValue, Str("x")>>}}

\* Header lines and bodies, as bytes
LineContentLength ==
    <<"C", "o", "n", "t", "e", "n", "t", "-", "L", "e", "n", "g", "t", "h", ":", " ", "2",
      "\r", "\n">>
LineLowerCase ==
    <<"c", "o", "n", "t", "e", "n", "t", "-", "l", "e", "n", "g", "t", "h", ":", "+", "2",
      "\n">>
LineNotANumber ==
    <<"C", "o", "n", "t", "e", "n", "t", "-", "L", "e", "n", "g", "t", "h", ":", " ", "x",
      "\r", "\n">>
LineOther == <<"X", ":", " ", "1", "\r", "\n">>
LineNoColon == <<"b", "a", "d", "\r", "\n">>
LineBlank == <<"\r", "\n">>

HeaderLines == {LineContentLength, LineLowerCase, LineNotANumber, LineOther, LineNoColon}

Bodies2 == {<<"{", "}">>, <<"1", "2">>}

\* A framed message: header lines, the blank line, the body; and the stream a
\* reader gets of it when the writer stops after `cut` bytes
Framed(lines, body) ==
    (IF lines = <<>> THEN <<>>
     ELSE IF Len(lines) = 1 THEN lines[1]
     ELSE lines[1] \o lines[2]) \o LineBlank \o body

HeaderBlocks ==
    {<<>>} \cup {<<l>> : l \in HeaderLines} \cup {<<l, k>> : l \in HeaderLines, k \in HeaderLines}

StreamInputs ==
    UNION {{[lines |-> ls, body |-> b, stream |-> SubSeq(Framed(ls, b), 1, cut)] :
               cut \in 0..Len(Framed(ls, b))} :
           ls \in HeaderBlocks, b \in Bodies2}

CodecInputs ==
    {[t |-> "value", v |-> v] : v \in CodecValues}
    \cup {[t |-> "handle", v |-> v] : v \in CodecHandles}
    \cup {[t |-> "ref_expr", v |-> v] : v \in CodecRefExprs}
    \cup {[t |-> "stream", v |-> v] : v \in StreamInputs}

InitCodec ==
    /\ InitClient
    /\ InitProcess
    /\ proxies = NoFn
    /\ input \in CodecInputs
    /\ output = Null

NextCodec ==
    \/ ApplyIsMarshalledHandle
    \/ ApplyHandleRoundTrip
    \/ ApplyRefExprRoundTrip
    \/ ApplyDecode

SpecCodec == InitCodec /\ [][NextCodec]_vars

\* ----------------------------------------------------------- wire format
\* Requests of two kinds and replies to reverse requests, written by several
\* threads chunk by chunk
WireRequests ==
    {<<"invoke", InvokeParams("cap", PositionalArgs)>>, <<"cancel", CancelParams(TokenId)>>}

WireMessages ==
    {Reverse(InboundId, "ping", <<>>)} \cup {Response(i, "result" :> Num(7)) : i \in 1..MaxId}

NextWire ==
    \/ \E t \in Threads, ok \in BOOLEAN : ~connected /\ Connect(t, ok)
    \/ \E t \in Threads : ConnectSet(t)
    \/ \E t \in Threads : ConnectStore(t)
    \/ \E t \in Threads, r \in WireRequests : Call(t, r[1], r[2])
    \/ \E t \in Threads : WriteHeader(t)
    \/ \E t \in Threads : WriteBody(t)
    \/ \E t \in Threads : ReadLock(t)
    \/ \E t \in Threads : ReadMessage(t, 0)
    \/ \E t \in Threads : UnknownMethod(t)
    \/ \E m \in WireMessages : ServerSend(m)

SpecWire == Init /\ [][NextWire]_vars

\* ------------------------------------------------------------ peer closes
\* Calls pending on a connection that the server closes at any time, after
\* answering some of them or none. A call under way keeps running; the
\* server is under no obligation
ClosingMessages == {Response(i, "result" :> Num(7)) : i \in 1..MaxId}

CallStep(t) ==
    \/ ConnectSet(t)
    \/ ConnectStore(t)
    \/ WriteRequest(t)
    \/ ReadLock(t)
    \/ ReadMessage(t, 0)
    \/ ReadEof(t)

NextClosing ==
    \/ \E t \in Threads, ok \in BOOLEAN : ~connected /\ Connect(t, ok)
    \/ \E t \in Threads : Call(t, "invoke", InvokeParams("cap", NoFn))
    \/ \E t \in Threads : CallStep(t)
    \/ \E m \in ClosingMessages : conn \notin eof /\ ServerSend(m)
    \/ PeerClose

SpecClosing ==
    Init /\ [][NextClosing]_vars /\ \A t \in Threads : WF_vars(CallStep(t))

\* ------------------------------------------------------ requests by method
\* Messages that carry a method together with the id of a pending call: an
\* invokeCallback request, a request of an unknown method, and a message that
\* has a result as well as a method; and the responses proper
MethodMessages ==
    UNION {{Reverse(Num(i), "invokeCallback", <<Str(CallbackId(0)), PositionalArgs>>),
            Reverse(Num(i), "ping", <<>>),
            Response(i, ("method" :> Str("ping")) @@ ("result" :> Num(8))),
            Response(i, "result" :> Num(7))} : i \in 1..MaxId}

NextMethods ==
    \/ \E t \in Threads : RegisterCallback(t, "echo")
    \/ \E t \in Threads, ok \in BOOLEAN : ~connected /\ Connect(t, ok)
    \/ \E t \in Threads : ConnectSet(t)
    \/ \E t \in Threads : ConnectStore(t)
    \/ \E t \in Threads : Call(t, "invoke", InvokeParams("cap", NoFn))
    \/ \E t \in Threads : WriteRequest(t)
    \/ \E t \in Threads : ReadLock(t)
    \/ \E t \in Threads : ReadMessage(t, 0)
    \/ \E t \in Threads : UnknownMethod(t)
    \/ \E t \in Threads : InvokeCallback(t)
    \/ \E t \in Threads : WriteReply(t)
    \/ \E m \in MethodMessages : ServerSend(m)

SpecMethods == Init /\ [][NextMethods]_vars

\* -------------------------------------------------------- positional args
\* invokeCallback requests whose second parameter is an object with any of
\* p0, p1, p2 and a member of another name, with strings, numbers and nulls
\* as values; a value that is no object; or is absent
ArgObjects ==
    {Obj(a @@ b @@ c @@ d) : a \in Members("p0"), b \in Members("p1"),
                             c \in Members("p2"), d \in Members("x")}

ArgValues ==
    ArgObjects \cup {Null, Num(5), Str("s"), Bool(FALSE), Arr(<<>>), Arr(<<Num(1), Num(2)>>)}

ArgRequests ==
    {Reverse(InboundId, "invokeCallback", <<Str(CallbackId(0)), a>>) : a \in ArgValues}
    \cup {Reverse(InboundId, "invokeCallback", <<Str(CallbackId(0))>>),
          Obj(("jsonrpc" :> Str("2.0")) @@ ("id" :> InboundId)
              @@ ("method" :> Str("invokeCallback")))}

InitArgs ==
    /\ InitClient
    /\ InitProcess
    /\ proxies = NoFn
    /\ input \in {[t |-> "request", v |-> r] : r \in ArgRequests}
    /\ output = Null

NextArgs == ApplyPositionalArgs

SpecArgs == InitArgs /\ [][NextArgs]_vars

\* ------------------------------------------------------------- token ids
\* Registrations of one token by several threads while time passes
NextTokenIds ==
    \/ Tick
    \/ \E t \in Threads : DrawTokenMillis(t)
    \/ \E t \in Threads : DrawTokenNanos(t)
    \/ \E t \in Threads : RegisterPush(t)

SpecTokenIds == Init /\ [][NextTokenIds]_vars

\* -------------------------------------------------------------- bootstrap
\* A process started with the variable unset, set to a path, or set to bytes
\* that are not Unicode; its threads bootstrap, then call through the client
Envs == {None, Some(SocketPath), NotUnicode}

InitBoot ==
    /\ InitClient
    /\ env \in Envs
    /\ socket_path = None
    /\ booted = <<>>
    /\ proxies = NoFn
    /\ input = Null
    /\ output = Null

NextBoot ==
    \/ \E t \in Threads, ok \in BOOLEAN : BootstrapConnect(t, ok)
    \/ \E t \in Threads : BootstrapSet(t)
    \/ \E t \in Threads : BootstrapStore(t)
    \/ \E t \in Threads : Booted /\ Call(t, "invoke", InvokeParams("cap", NoFn))
    \/ \E t \in Threads : WriteRequest(t)
    \/ \E t \in Threads : ReadLock(t)
    \/ \E t \in Threads : ReadMessage(t, 0)
    \/ \E m \in Messages : Booted /\ ServerSend(m)

SpecBoot == InitBoot /\ [][NextBoot]_vars

\* ------------------------------------------------------------------ tokens
\* One cancellation token, its continuations, and a client whose capability
\* call carries the token id, as the generated wrappers make it
TokenArgs == "cancellationToken" :> Str(TokenId)

TokenMessages == {Response(i, "result" :> Num(7)) : i \in 1..MaxId}

Registering(k) ==
    \/ \E i \in 1..Len(registered) : registered[i] = k
    \/ \E t \in Threads : InToken(t, "register", "push") /\ Top(t).val = k

NextTokens ==
    \/ \E t \in Threads, ok \in BOOLEAN : ~connected /\ Connect(t, ok)
    \/ \E t \in Threads : ConnectSet(t)
    \/ \E t \in Threads : ConnectStore(t)
    \/ \E t \in Threads, k \in PlainContinuations : ~Registering(k) /\ Register(t, k)
    \/ \E t \in Threads : ~Registering(CancelContinuation) /\ register_cancellation(t)
    \/ \E t \in Threads : RegisterPush(t)
    \/ \E t \in Threads : Cancel(t)
    \/ \E t \in Threads : CancelTake(t)
    \/ \E t \in Threads : CancelRun(t)
    \/ \E t \in Threads : Call(t, "invoke", InvokeParams("cap", TokenArgs))
    \/ \E t \in Threads : WriteRequest(t)
    \/ \E t \in Threads : ReadLock(t)
    \/ \E t \in Threads : ReadMessage(t, 0)
    \/ \E m \in TokenMessages : sent < MaxTokenSent /\ ServerSend(m)

SpecTokens == Init /\ [][NextTokens]_vars

\* A token registered with the client and cancelled while capability calls
\* carrying its id are pending. The threads of the program keep running
\* (each step of a call under way is taken when it stays possible); the
\* server answers when it chooses, or never
ThreadStep(t) ==
    \/ ConnectSet(t)
    \/ ConnectStore(t)
    \/ RegisterPush(t)
    \/ CancelTake(t)
    \/ CancelRun(t)
    \/ WriteRequest(t)
    \/ ReadLock(t)
    \/ ReadMessage(t, 0)

NextCancelling ==
    \/ \E t \in Threads, ok \in BOOLEAN : ~connected /\ Connect(t, ok)
    \/ \E t \in Threads : ~Registering(CancelContinuation) /\ register_cancellation(t)
    \/ \E t \in Threads : Cancel(t)
    \/ \E t \in Threads : Call(t, "invoke", InvokeParams("cap", TokenArgs))
    \/ \E t \in Threads : ThreadStep(t)
    \/ \E m \in TokenMessages : sent < MaxTokenSent /\ ServerSend(m)

SpecCancelling ==
    Init /\ [][NextCancelling]_vars /\ \A t \in Threads : WF_vars(ThreadStep(t))

\* ------------------------------------------------------------------ claims
CallIds == 1..Len(calls)
LogIds == 1..Len(log)

IsResponse(m) == ~Has(m, "method")
ResultOf(m) == IF Has(m, "result") THEN Get(m, "result") ELSE Null

\* The requests (messages with a method) written by call c
RequestsOf(c) == {i \in LogIds : log[i].e = "write" /\ log[i].c = c /\ Has(log[i].m, "method")}

\* The frame of call c, while the call is running
Running(c) == \E i \in 1..Len(stack[calls[c].t]) : stack[calls[c].t][i].c = c

\* Call c is waiting for its response, which a call of another thread has
\* read from the connection c wrote its request on
Stolen(c) ==
    /\ calls[c].out = Pending
    /\ \E w \in RequestsOf(c), i \in LogIds :
          /\ w < i
          /\ log[i].e = "read"
          /\ log[i].conn = log[w].conn
          /\ IsResponse(log[i].m)
          /\ U64Of(log[i].m, "id") = calls[c].id
          /\ calls[log[i].c].t # calls[c].t

\* C1: with several threads calling on one client, no response is read and
\* consumed by a call other than the one whose request id it carries
C1_ReadLoopExclusive == \A c \in CallIds : ~Stolen(c)

\* C2 as claimed: a call returns successfully only on a method-less message
\* carrying its own id, and returns exactly that message's result (null when
\* absent), for invoke_capability and cancel_token alike
C2_ReturnsResult ==
    \A c \in CallIds :
        calls[c].out.st = "ok" =>
            /\ calls[c].resp # Null
            /\ IsResponse(calls[c].resp)
            /\ U64Of(calls[c].resp, "id") = calls[c].id
            /\ calls[c].out.v = ResultOf(calls[c].resp)

\* The value a successful call returns for the response it consumed
ReturnedValue(op, resp) ==
    IF op = "invoke" THEN ResultOf(resp)
    ELSE Bool(ResultOf(resp) = Bool(TRUE))

\* Thread t is reading, and the step reads a response carrying another id
ReadsOther(t) ==
    /\ InCall(t, "recv")
    /\ inbox # <<>>
    /\ IsResponse(Head(inbox))
    /\ U64Of(Head(inbox), "id") # calls[Top(t).c].id
    /\ Len(log') > Len(log)
    /\ log'[Len(log) + 1] = Event("read", t, Head(inbox))

C2_Returned ==
    \A c \in CallIds :
        calls[c].out.st = "ok" =>
            /\ calls[c].resp # Null
            /\ IsResponse(calls[c].resp)
            /\ U64Of(calls[c].resp, "id") = calls[c].id
            /\ \E i \in LogIds :
                  /\ log[i].e = "read"
                  /\ log[i].t = calls[c].t
                  /\ log[i].c = c
                  /\ log[i].m = calls[c].resp
            /\ calls[c].out.v = ReturnedValue(calls[c].op, calls[c].resp)

C2_Dropped ==
    \A t \in Threads :
        ReadsOther(t) =>
            /\ stack'[t] = [stack[t] EXCEPT ![1].pc = "lock"]
            /\ calls' = calls

\* C2 (amended): a call returns successfully only after reading a method-less
\* message carrying its own id; invoke_capability returns exactly that
\* message's result (null when absent) and cancel_token returns it when it is
\* a boolean and false otherwise; a response carrying another id is dropped
\* and the call keeps waiting
C2_ReturnsOwnResponse == []C2_Returned /\ [][C2_Dropped]_vars

\* C2 witness: a cancel_token returned false for a response whose result is
\* no boolean, after its call read and dropped a response carrying another id
C2_Witness ==
    \E c \in CallIds :
        /\ calls[c].op = "cancel"
        /\ calls[c].out = Ok(Bool(FALSE))
        /\ ResultOf(calls[c].resp) = Num(7)
        /\ \E i \in LogIds :
              /\ log[i].e = "read"
              /\ log[i].c = c
              /\ U64Of(log[i].m, "id") # calls[c].id

\* C3 as claimed: every invoke_capability call that has returned wrote exactly
\* one request, whose id is the counter's value before the call
C3_ExactlyOneRequest ==
    \A c \in CallIds :
        (calls[c].op = "invoke" /\ calls[c].out # Pending) =>
            /\ Cardinality(RequestsOf(c)) = 1
            /\ \A i \in RequestsOf(c) :
                  log[i].m = RequestMessage(calls[c].pre, "invokeCapability", calls[c].params)

\* Call c is past the write of its request
PastWrite(c) ==
    ~(\E i \in 1..Len(stack[calls[c].t]) :
         stack[calls[c].t][i].c = c /\ stack[calls[c].t][i].pc = "write")

\* C3 (amended): an invoke_capability call writes at most one request; it
\* writes exactly one, with method invokeCapability, params [capability_id,
\* args] and the id the counter had before the call, unless the client holds
\* no connection when the request is to be written: then nothing is written
\* and the call fails with the not-connected error
C3_OneRequestWhenConnected ==
    \A c \in CallIds :
        calls[c].op = "invoke" =>
            /\ Cardinality(RequestsOf(c)) <= 1
            /\ \A i \in RequestsOf(c) :
                  log[i].m = RequestMessage(calls[c].pre, "invokeCapability", calls[c].params)
            /\ (PastWrite(c) /\ RequestsOf(c) = {}) =>
                  calls[c].out = Err("Not connected to AppHost")
            /\ ~PastWrite(c) => RequestsOf(c) = {}

\* C3 witness: one invoke_capability has written its request and returned,
\* another found no connection and wrote nothing
C3_Witness ==
    /\ \E c \in CallIds :
          calls[c].op = "invoke" /\ calls[c].out.st = "ok" /\ Cardinality(RequestsOf(c)) = 1
    /\ \E c \in CallIds :
          calls[c].op = "invoke" /\ calls[c].out.st = "err" /\ RequestsOf(c) = {}

\* The requests written on the connection, by any call
RequestWrites == {i \in LogIds : log[i].e = "write" /\ Has(log[i].m, "method")}

\* C4: request ids start at 1, each is one more than the one drawn before
\* it, no two requests carry the same id, and the counter is never reset,
\* whatever sends failed and whatever disconnects and reconnects happened
C4_IdsStrictlyMonotonic ==
    /\ next_id = Len(calls) + 1
    /\ \A c \in CallIds : calls[c].id = c
    /\ \A i, j \in RequestWrites :
          U64Of(log[i].m, "id") = U64Of(log[j].m, "id") => i = j

\* C4 witness: after a send that failed, a disconnect and a reconnect, a
\* request went out on the second connection with the next id
C4_Witness ==
    /\ Len(calls) = 2
    /\ calls[1].out = Err("Not connected to AppHost")
    /\ opened = 2
    /\ closed = 1
    /\ \E i \in RequestWrites : log[i].conn = 2 /\ U64Of(log[i].m, "id") = 2

\* C5: whenever the result of the matching response has a "$error" member,
\* invoke_capability fails with a CapabilityError whose code, message and
\* capability are copied from it; the envelope never comes back as a value
C5_EnvelopeAlwaysFails ==
    \A c \in CallIds :
        (/\ calls[c].op = "invoke"
         /\ calls[c].resp # Null
         /\ ~Has(calls[c].resp, "error")
         /\ Has(ResultOf(calls[c].resp), "$error")) =>
            LET e == Get(ResultOf(calls[c].resp), "$error") IN
            /\ calls[c].out.st = "caperr"
            /\ e.t = "obj" =>
                  /\ calls[c].out.v.code = StrOr(e, "code", "")
                  /\ calls[c].out.v.message = StrOr(e, "message", "")
                  /\ calls[c].out.v.capability =
                        (IF Has(e, "capability") THEN Get(e, "capability") ELSE Null)

\* The response carries a JSON-RPC error object
HasErrorObject(m) == Has(m, "error") /\ Get(m, "error").t = "obj"

\* C6: a matching response with a JSON-RPC error object makes the call fail
\* with a protocol error carrying error.message; a matching response without
\* an error object never makes the call fail with a protocol error
C6_ErrorObjectDecides ==
    \A c \in CallIds :
        calls[c].resp # Null =>
            /\ HasErrorObject(calls[c].resp) =>
                  /\ calls[c].out.st = "err"
                  /\ Has(Get(calls[c].resp, "error"), "message") =>
                        calls[c].out.v = Get(Get(calls[c].resp, "error"), "message")
            /\ ~HasErrorObject(calls[c].resp) => calls[c].out.st # "err"

\* ------------------------------------------------- claims: reverse requests
\* What call log[i].c did on the connection and with closures after event i
After(i) == {j \in LogIds : j > i /\ log[j].c = log[i].c /\ log[j].e # "lost"}

First(S) == CHOOSE j \in S : \A k \in S : j <= k

\* Event i is the read of an invokeCallback request carrying an id, whose
\* callback id the registry held when the request was dispatched
CallbackRead(i) ==
    /\ log[i].e = "read"
    /\ InMethod(log[i].m) = "invokeCallback"
    /\ Has(log[i].m, "id")
    /\ After(i) # {}
    /\ log[First(After(i))].e = "invoke"

\* Event i is the read of a request carrying an id whose method is not
\* invokeCallback
UnknownRead(i) ==
    /\ log[i].e = "read"
    /\ Has(log[i].m, "method")
    /\ InMethod(log[i].m) # "invokeCallback"
    /\ Has(log[i].m, "id")

\* Event j is a result reply to the request read at i
IsReplyTo(j, i) ==
    /\ log[j].e = "write"
    /\ IsResponse(log[j].m)
    /\ Has(log[j].m, "result")
    /\ Get(log[j].m, "id") = Get(log[i].m, "id")

\* v is what the closure run for the request read at i returned
ClosureReturned(i, v) ==
    LET kind == registry[InCallbackId(log[i].m)] IN
    CASE kind = "echo" -> v = Arr(positional_args(InArgs(log[i].m)))
      [] kind = "nested" ->
           \E n \in CallIds :
              /\ n > log[i].c
              /\ calls[n].t = log[i].t
              /\ calls[n].depth = calls[log[i].c].depth + 1
              /\ calls[n].out # Pending
              /\ v = ClosureReturn(calls[n].out)
      [] OTHER -> FALSE

\* The call that read the request at i has returned to its caller
ReturnedAfter(i) ==
    /\ ~Running(log[i].c)
    /\ calls[log[i].c].out # Pending
    /\ calls[log[i].c].out # Panicked

NotConnected == Err("Not connected to AppHost")

Replies(i) ==
    {j \in After(i) :
        /\ log[j].e = "write"
        /\ IsResponse(log[j].m)
        /\ \A k \in After(i) : log[k].e = "read" => j < k}

\* The invocation read at i is over: its call has read again or has returned
Past(i) == (\E k \in After(i) : log[k].e = "read") \/ ReturnedAfter(i)

C9_NestedCallsComplete ==
    /\ \A t \in Threads :
          \A k \in 1..Len(stack[t]) : stack[t][k].pc \notin {"deadlocked", "panicked"}
    /\ \A c \in CallIds :
          (calls[c].depth > 0 /\ calls[c].out.st = "ok")
             => U64Of(calls[c].resp, "id") = calls[c].id

\* The error reply to the request read at i
UnknownMethodReply(i) ==
    ReplyError(Get(log[i].m, "id"), -32601, "Unknown method: " \o InMethod(log[i].m))

\* C10 as claimed: a request with another method than invokeCallback is
\* answered with the -32601 error reply carrying the inbound id, no closure
\* is run, and the pending call goes on reading: it does not return before
\* the reply is written
C10_UnknownMethodAnswered ==
    \A i \in LogIds :
        UnknownRead(i) =>
            /\ After(i) # {} =>
                  LET j == First(After(i)) IN
                  /\ log[j].e = "write"
                  /\ log[j].m = UnknownMethodReply(i)
                  /\ After(j) # {} => log[First(After(j))].e = "read"
            /\ After(i) = {} => Running(log[i].c)

\* C10, amended: the same, except that when the client has given up the
\* connection by the time of the reply no reply is written and the pending
\* call returns "Not connected to AppHost"; after a written reply the call
\* returns a result only from a later read
C10_UnknownMethodAnsweredWhileConnected ==
    \A i \in LogIds :
        UnknownRead(i) =>
            /\ After(i) # {} =>
                  LET j == First(After(i)) IN
                  /\ log[j].e = "write"
                  /\ log[j].m = UnknownMethodReply(i)
                  /\ After(j) # {} => log[First(After(j))].e = "read"
                  /\ (After(j) = {} /\ ~Running(log[i].c)) => calls[log[i].c].out.st # "ok"
            /\ (After(i) = {} /\ ~Running(log[i].c)) => calls[log[i].c].out = NotConnected

\* An unknown method was answered and the pending call went on to return
\* its own result
C10_Witness ==
    \E i \in LogIds :
        /\ UnknownRead(i)
        /\ \E j \in After(i) : log[j].m = UnknownMethodReply(i)
        /\ calls[log[i].c].out = Ok(Num(7))

\* ------------------------------------------------- claims: callback failures
\* Event i is the read of an invokeCallback request carrying an id
InvokeRead(i) ==
    /\ log[i].e = "read"
    /\ InMethod(log[i].m) = "invokeCallback"
    /\ Has(log[i].m, "id")

\* ... whose callback id was missing or not bound when it was looked up
UnboundRead(i) ==
    /\ InvokeRead(i)
    /\ After(i) # {}
    /\ log[First(After(i))].e = "missing"

NotFoundMessage(id) ==
    IF id = "" THEN "Callback ID missing" ELSE "Callback not found: " \o id

\* {"jsonrpc": "2.0", "id": <inbound id>, "error": {"code": -32000, "message": ..}}
NotFoundReply(i) ==
    Obj(("jsonrpc" :> Str("2.0")) @@ ("id" :> Get(log[i].m, "id"))
        @@ ("error" :> Obj(("code" :> Num(-32000))
                           @@ ("message" :> Str(NotFoundMessage(InCallbackId(log[i].m)))))))

C12_ClosureFailureReported ==
    \A i \in LogIds :
        CallbackRead(i) =>
            /\ calls[log[i].c].out # Panicked
            /\ After(First(After(i))) # {} =>
                  LET j == First(After(First(After(i)))) IN
                  /\ log[j].e = "write"
                  /\ IsResponse(log[j].m)
                  /\ Get(log[j].m, "id") = Get(log[i].m, "id")

\* ---------------------------------------------- claims: connect / disconnect
\* The step is the return of the disconnect() call thread t is inside
DisconnectReturns(t) ==
    /\ ~Idle(t)
    /\ Top(t).op = "disconnect"
    /\ Top(t).pc = "fire"
    /\ stack'[t] = <<>>

\* C13: disconnect listeners run exactly once per transition from connected
\* to disconnected: a disconnect() that found the client connected runs every
\* listener once, and a disconnect() on a client that was already
\* disconnected, or never connected, runs none
C13_FiresOncePerTransition ==
    [][\A t \in Threads :
          DisconnectReturns(t) =>
              IF Top(t).val.connected
              THEN fired' = fired \o disconnect_callbacks
              ELSE fired' = fired]_vars

\* The listeners the returning disconnect() of thread t has run: those
\* registered before the call, each once and in registration order, then any
\* registered during it
RanListeners(t) ==
    LET before == Top(t).val.listeners IN
    /\ Len(fired') = Len(fired) + Len(disconnect_callbacks)
    /\ SubSeq(fired', 1, Len(fired)) = fired
    /\ SubSeq(fired', Len(fired) + 1, Len(fired) + Len(before)) = before

\* A connect() call was in progress when the disconnect() of thread t began,
\* or has opened a connection since
ConnectOverlaps(t) == Top(t).val.connecting \/ opened # Top(t).val.opened

Installs == conn' # conn /\ conn' # 0

\* The step is the attempt of thread t's invoke_capability to write its request
TriesToWrite(t) ==
    /\ InCall(t, "write")
    /\ Top(t).op = "invoke"
    /\ stack'[t] # stack[t]

\* C15: invoke_capability on a client that never connected, or after
\* disconnect(), fails with the not-connected error and writes nothing: a
\* client on which no connect() has opened a connection holds none; when a
\* disconnect() that no connect() overlapped returns the client holds none;
\* only a connect() in progress installs one; and a call that finds none held
\* fails with "Not connected to AppHost" without writing
C15_NotConnectedWritesNothing ==
    [][/\ opened' = 0 => conn' = 0
       /\ \A t \in Threads :
             (DisconnectReturns(t) /\ ~ConnectOverlaps(t)) => conn' = 0
       /\ Installs => \E t \in Threads :
                         /\ ~Idle(t)
                         /\ Top(t).op = "connect"
                         /\ Top(t).pc = "set"
                         /\ conn' = Top(t).c
       /\ \A t \in Threads :
             (TriesToWrite(t) /\ conn = 0)
                => /\ log' = log
                   /\ calls'[Top(t).c].out = NotConnected
                   /\ stack'[t] = <<>>]_vars

\* A call made while connected returned its result; after the disconnect()
\* a later call has failed with the not-connected error and written nothing;
\* and there never has been a second connection
C15_Witness ==
    /\ opened = 1 /\ closed = 1 /\ conn = 0
    /\ \A t \in Threads : Idle(t)
    /\ \E c, d \in CallIds :
          /\ c < d
          /\ calls[c].out = Ok(Num(7))
          /\ calls[d].out = NotConnected
          /\ RequestsOf(d) = {}
          /\ \A i \in LogIds : log[i].e = "write" => log[i].c = c

\* Thread u is blocked in read_message: it holds the conn mutex and waits for
\* bytes the server has not written
BlockedReading(u) == InCall(u, "recv") /\ connLock = u /\ inbox = <<>>

\* C16: a disconnect() called from another thread while an invoke_capability
\* is blocked waiting for its response completes, and the pending call fails
\* with a not-connected error instead of staying blocked: a disconnect()
\* that was called while a call was reading is never left waiting to release
\* the connection behind a call that is blocked reading
C16_DisconnectUnblocksPendingCall ==
    \A t, u \in Threads :
        ~ /\ ~Idle(t)
          /\ Top(t).op = "disconnect"
          /\ Top(t).pc = "close"
          /\ Top(t).val.reading
          /\ BlockedReading(u)
          /\ Top(u).op = "invoke"

Quiet == \A t \in Threads : Idle(t)

Count(seq, k) == Cardinality({i \in 1..Len(seq) : seq[i] = k})

\* A call of cancel() begins
CancelBegins == cancels' # cancels

\* C18: is_cancelled never goes back to false; no continuation runs twice; a
\* cancel() of a cancelled token runs nothing and returns at once; and once the
\* token is cancelled and every call has returned, the continuations that
\* were registered have each run exactly once, in registration order.
C18_TokenRunsEachOnceInOrder ==
    [][/\ cancelled => cancelled'
       /\ \A k \in PlainContinuations \cup {CancelContinuation} : Count(ran', k) <= 1
       /\ (cancelled /\ CancelBegins) => UNCHANGED <<stack, ran, callbacks>>
       /\ (Quiet' /\ cancelled') => ran' = registered']_vars

\* Thread t leaves register() by its push
Pushes(t) == InToken(t, "register", "push") /\ stack'[t] = Tail(stack[t])

\* Thread t enters register() and finds the token not cancelled
FindsLive(t) == Idle(t) /\ ~Idle(t)' /\ Top(t)'.op = "register"

\* A register() call finds the token cancelled
FindsCancelled == registered' # registered /\ \A t \in Threads : ~Pushes(t)

\* C19: register on a cancelled token runs the continuation at once, exactly
\* once, and does not store it; register on a token that is not cancelled
\* runs nothing and appends the continuation at the end of the list; and the
\* list is run by the first cancel(): once the token is cancelled and every
\* call has returned, nothing is left on it.
C19_RegisterRunsOrStores ==
    [][/\ FindsCancelled =>
             /\ cancelled
             /\ ran' = Append(ran, registered'[Len(registered')])
             /\ Count(ran', registered'[Len(registered')]) = 1
             /\ callbacks' = callbacks
       /\ \A t \in Threads :
             /\ FindsLive(t) => ~cancelled /\ UNCHANGED <<ran, callbacks>>
             /\ Pushes(t) => callbacks' = Append(callbacks, Top(t).val) /\ ran' = ran
       /\ (Quiet' /\ cancelled') => callbacks' = <<>>]_vars

\* The cancelToken requests the client has written
CancelTokenWrites ==
    {i \in 1..Len(log) : log[i].e = "write" /\ StrOr(log[i].m, "method", "") = "cancelToken"}

\* Thread u is inside the capability call whose arguments carry the token id
CarriesToken(u) ==
    /\ InCall(u, "recv")
    /\ Top(u).op = "invoke"
    /\ calls[Top(u).c].params = InvokeParams("cap", TokenArgs)

\* The request of u's call was written before the cancel() of thread t began
WrittenBeforeCancel(u, t) ==
    \E i \in 1..stack[t][2].c : log[i].e = "write" /\ log[i].c = Top(u).c

\* Thread t is inside cancel(), in the cancel_token call of the continuation
\* of register_cancellation, and has not yet written its request
CancelWaitsToWrite(t) ==
    /\ InCall(t, "write")
    /\ Top(t).op = "cancel"
    /\ Len(stack[t]) > 1
    /\ stack[t][2].op = "cancel_fn"

\* C20: with the token registered by register_cancellation and its id passed
\* in a capability call, cancel() sends the cancelToken request with params
\* [id]: at most one such request is ever written, and the cancel() that runs
\* the continuation is not kept from writing it by the call that carries the
\* id, written before that cancel() began and waiting for its response.
C20_CancelSendsCancelToken ==
    /\ Cardinality(CancelTokenWrites) <= 1
    /\ \A i \in CancelTokenWrites : Get(log[i].m, "params") = CancelParams(TokenId)
    /\ \A t, u \in Threads :
          ~(/\ CancelWaitsToWrite(t)
            /\ CarriesToken(u)
            /\ WrittenBeforeCancel(u, t)
            /\ BlockedReading(u))

\* ---------------------------------------------------------------- registry
\* C21: the ids register_callback has returned are pairwise distinct, whether
\* or not they are still bound, under every interleaving of register_callback
\* and unregister_callback.
C21_CallbackIdsNeverReused ==
    \A i, j \in 1..Len(issued) : i # j => issued[i] # issued[j]

\* Three ids have been returned, two of them drawn at the same clock reading
\* and not in the order of their counter values, and one of them has been
\* unregistered again
C21_Witness ==
    /\ Len(issued) = MaxRegistrations
    /\ issued[1] = CallbackIdAt(1, 0)
    /\ issued[2] = CallbackIdAt(0, 0)
    /\ \E k \in 1..Len(unregistered) :
          unregistered[k] = Unregistered(CallbackIdAt(1, 0), "true")
    /\ CallbackIdAt(1, 0) \notin DOMAIN registry

\* Thread t is about to look up the callback id of an inbound invokeCallback
Dispatching(t) ==
    /\ InCall(t, "dispatch")
    /\ InMethod(Top(t).msg) = "invokeCallback"
    /\ InCallbackId(Top(t).msg) # ""

\* Thread t takes its next step
Moves(t) == stack'[t] # stack[t]

\* The step appends one event of kind e to the log
Logs(e) == Len(log') = Len(log) + 1 /\ log'[Len(log')].e = e

\* C22: a callback is bound from its register_callback until an
\* unregister_callback of its id and by nothing else (the registry changes
\* only in those two calls); an inbound invocation of a bound id runs the
\* closure; unregister_callback returns true when the id was bound and false
\* when it was not, and leaves the id unbound; an inbound invocation of an
\* unbound id does not run a closure and is answered with the -32000 reply
\* "Callback not found".
C22_BoundUntilUnregistered ==
    [][/\ registry' # registry => (issued' # issued \/ unregistered' # unregistered)
       /\ \A t \in Threads :
             /\ (Dispatching(t) /\ Moves(t) /\ InCallbackId(Top(t).msg) \in DOMAIN registry)
                   => Logs("invoke")
             /\ (Dispatching(t) /\ Moves(t) /\ InCallbackId(Top(t).msg) \notin DOMAIN registry)
                   => /\ Logs("missing")
                      /\ InCall(t, "reply")'
                      /\ Top(t)'.val =
                            ReplyError(Get(Top(t).msg, "id"), -32000,
                                       "Callback not found: " \o InCallbackId(Top(t).msg))
             /\ (InCall(t, "reply") /\ Moves(t))
                   => Logs("write") /\ log'[Len(log')].m = Top(t).val
       /\ unregistered' # unregistered =>
             LET r == unregistered'[Len(unregistered')] IN
             /\ r.ret = IF r.id \in DOMAIN registry THEN "true" ELSE "false"
             /\ r.id \notin DOMAIN registry'
             /\ \A k \in DOMAIN registry \ {r.id} :
                   k \in DOMAIN registry' /\ registry'[k] = registry[k]]_vars

\* -------------------------------------------------------- lazy collections
\* The calls of the getter capability of proxy p
GetterCalls(p) ==
    {c \in CallIds :
        /\ calls[c].op = "invoke"
        /\ calls[c].params = InvokeParams(GetterOf(p),
                                          "context" :> HandleToJson(ContextHandle))}

\* C23: the getter capability of a proxy built with with_getter is invoked at
\* most once, however often handle() is called and whether the call succeeded
\* or failed; a proxy built with new invokes nothing (every call made is the
\* getter call of a proxy that has a getter).
C23_GetterAtMostOnce ==
    /\ \A p \in Proxies :
          /\ Cardinality(GetterCalls(p)) <= 1
          /\ ~proxies[p].getter_capability_id.some => GetterCalls(p) = {}
    /\ \A c \in CallIds :
          \E p \in Proxies : proxies[p].getter_capability_id.some /\ c \in GetterCalls(p)

\* handle() of the list, built with a getter, has been called three times and
\* its one getter call failed; handle() of the dictionary, built with new, has
\* been called three times as well
C23_Witness ==
    /\ proxies["list"].getter_capability_id.some
    /\ Len(proxies["list"].returned) = MaxHandleCalls
    /\ \E c \in GetterCalls("list") : calls[c].out.st = "err"
    /\ ~proxies["dict"].getter_capability_id.some
    /\ Len(proxies["dict"].returned) = MaxHandleCalls
    /\ GetterCalls("dict") = {}

\* The getter call of p succeeded with a value that decodes as a handle
GetterGave(p, h) ==
    \E c \in GetterCalls(p) :
        calls[c].out.st = "ok" /\ HandleFromValue(calls[c].out.v) = Some(h)

\* C24: every handle() of a proxy returns the handle decoded from the result
\* of its getter call when that call succeeded and the result decodes as a
\* handle, and the context handle otherwise (no getter, failed call, result
\* that is no handle); all handle() calls of a proxy return the same handle.
C24_HandleDecodedOrContext ==
    \A p \in Proxies :
        \A i \in 1..Len(proxies[p].returned) :
            LET h == proxies[p].returned[i] IN
            /\ h = proxies[p].returned[1]
            /\ proxies[p].resolved_handle = Some(h)
            /\ \/ GetterGave(p, h)
               \/ /\ h = proxies[p].context_handle
                  /\ ~\E g \in {Handle("h1", "T"), Handle("h2", "T")} : GetterGave(p, g)

\* The list has returned, three times, the handle its getter gave as an
\* object
C24_Witness ==
    /\ proxies["list"].returned =
          <<Handle("h1", "T"), Handle("h1", "T"), Handle("h1", "T")>>
    /\ GetterGave("list", Handle("h1", "T"))

\* ------------------------------------------------------------------- codec
\* The function has been applied to an input of the kind
Done(kind) == input.t = kind /\ output # Null

IsContentLength(line) == line \in {LineContentLength, LineLowerCase, LineNotANumber}

\* The Content-Length headers of the block, by position
ContentLengths == {i \in 1..Len(input.v.lines) : IsContentLength(input.v.lines[i])}

LastContentLength ==
    input.v.lines[CHOOSE i \in ContentLengths : \A j \in ContentLengths : j <= i]

\* The reader got the whole framed message
Complete == input.v.stream = Framed(input.v.lines, input.v.body)

\* The message the body spells
MessageOf(body) == IF body = <<"{", "}">> THEN Obj(NoFn) ELSE Num(12)

\* C25: read_message returns an error when the header block has no
\* Content-Length header, when the value of its Content-Length header (the
\* last one, if it has several) is not a number, and when the stream ends
\* before the whole message has been read; a message it returns is the whole
\* message, never a part of it.
C25_DecoderFailsOnBadFrame ==
    Done("stream") =>
        /\ ContentLengths = {} => output.st = "err"
        /\ (ContentLengths # {} /\ LastContentLength = LineNotANumber) => output.st = "err"
        /\ ~Complete => output.st = "err"
        /\ output.st = "ok" => output.v = MessageOf(input.v.body)

\* The stream ended one byte before the end of the body "12" announced with
\* Content-Length: 2, and read_message failed
C25_Witness ==
    /\ Done("stream")
    /\ input.v.lines = <<LineContentLength>>
    /\ input.v.body = <<"1", "2">>
    /\ Len(input.v.stream) = Len(Framed(input.v.lines, input.v.body)) - 1
    /\ output = Err("failed to fill whole buffer")

\* C26: read_message returns an error when the header block has a non-empty
\* line without a ':', whether or not a valid Content-Length header is in the
\* same block.
C26_MalformedHeaderFails ==
    (Done("stream") /\ \E i \in 1..Len(input.v.lines) : input.v.lines[i] = LineNoColon)
        => output.st = "err"

\* ------------------------------------------------------------------------ C27
\* What was written on connection k, in order
RECURSIVE OnConn(_, _)
OnConn(w, k) ==
    IF w = <<>> THEN <<>>
    ELSE (IF Head(w).conn = k THEN <<Head(w).text>> ELSE <<>>) \o OnConn(Tail(w), k)

\* The messages written on connection k, in the order write_message returned
RECURSIVE WrittenOn(_, _)
WrittenOn(l, k) ==
    IF l = <<>> THEN <<>>
    ELSE (IF Head(l).e = "write" /\ Head(l).conn = k THEN <<Head(l).m>> ELSE <<>>)
         \o WrittenOn(Tail(l), k)

\* The header that announces a body of n bytes
Announced(n) == "Content-Length: " \o ToString(n) \o "\r\n\r\n"

\* A thread is between the header and the body of its message
MidWrite(t) == InCall(t, "body")

\* C27: writes are atomic per message. Under every interleaving of the
\* threads, what a connection carries is a sequence of whole frames: a
\* header, then at once the body it announces, whose Content-Length is the
\* byte length of that body, the bodies being the messages written, in
\* order; only the last frame may still lack its body, while its writer
\* holds the connection.
C27_WritesAtomic ==
    \A k \in 1..MaxConns :
        LET w == OnConn(wire, k)
            msgs == WrittenOn(log, k)
        IN  /\ Len(w) \in {2 * Len(msgs), 2 * Len(msgs) + 1}
            /\ \A i \in 1..Len(msgs) :
                  /\ w[2 * i] = ToJsonString(msgs[i])
                  /\ w[2 * i - 1] = Announced(Len(w[2 * i]))
            /\ Len(w) = 2 * Len(msgs) + 1 =>
                  \E t \in Threads :
                      /\ MidWrite(t) /\ connLock = t /\ conn = k
                      /\ w[Len(w)] = Announced(Len(ToJsonString(Top(t).val)))

\* witness: with a whole frame already on the wire, a thread has written the
\* header of an error reply while another thread waits to write its request
C27_Witness ==
    /\ Len(wire) >= 3
    /\ \E t, u \in Threads :
          /\ t # u
          /\ MidWrite(t) /\ Has(Top(t).val, "error")
          /\ InCall(u, "write")

\* C28: a handle serialized with to_json deserializes to a handle with the
\* same handle_id and type_id.
C28_HandleRoundTrip ==
    Done("handle") =>
        /\ output.some
        /\ output.v.handle_id = input.v.handle_id
        /\ output.v.type_id = input.v.type_id

C28_Witness ==
    /\ Done("handle")
    /\ input.v = Handle("$type", "T")
    /\ output = Some(Handle("$type", "T"))

\* C29: the value made by ReferenceExpression::to_json deserializes to a
\* ReferenceExpression with the same format and args.
C29_RefExprRoundTrip ==
    Done("ref_expr") =>
        /\ output.some
        /\ output.v.format = input.v.format
        /\ output.v.args = input.v.args

\* Two values have the same shape: the same JSON type and, for objects, the
\* same member names
SameShape(v, w) == v.t = w.t /\ (v.t = "obj" => DOMAIN v.o = DOMAIN w.o)

\* C30: is_marshalled_handle(v) is true exactly when v is an object with a
\* "$handle" and a "$type" member, false for every other value, and the same
\* for all values of the same shape.
C30_MarshalledHandleByShape ==
    Done("value") =>
        /\ output = Bool(/\ input.v.t = "obj"
                         /\ "$handle" \in DOMAIN input.v.o
                         /\ "$type" \in DOMAIN input.v.o)
        /\ \A w \in CodecValues :
              SameShape(w, input.v) => Bool(is_marshalled_handle(w)) = output

\* The value is an object whose "$handle" is null and whose "$type" is a
\* number, next to an "$error" member: a marshalled handle
C30_Witness ==
    /\ Done("value")
    /\ input.v = Obj(("$handle" :> Null) @@ ("$type" :> Num(1)) @@ ("$error" :> Str("h1")))
    /\ output = Bool(TRUE)

\* ------------------------------------------------------------------------ C31
\* What connect() returns when the variable cannot be read
ConfigError ==
    Err("REMOTE_APP_HOST_SOCKET_PATH environment variable not set. "
        \o "Run this application using 'aspire run'")

\* No client exists and no endpoint was opened
NothingBuilt ==
    /\ socket_path = None
    /\ opened = 0 /\ conn = 0 /\ ~connected
    /\ \A t \in Threads : Idle(t)
    /\ \A i \in 1..Len(booted) : booted[i] = ConfigError

\* C31 as stated: with the variable unset connect() fails with the
\* configuration error and builds nothing; with the variable set, whatever
\* its value, a client is constructed and is connected when returned.
C31_BootstrapReadsVariable ==
    /\ env = None => NothingBuilt
    /\ (env # None /\ booted # <<>>) =>
          /\ socket_path # None
          /\ \A i \in 1..Len(booted) : booted[i] # ConfigError
          /\ Booted => connected /\ conn # 0

\* C31 amended: with the variable unset, or set to a value that is not valid
\* Unicode, connect() fails with the configuration error naming
\* REMOTE_APP_HOST_SOCKET_PATH and builds nothing; with the variable set to
\* a path, a client is constructed for that path, an endpoint is opened, and
\* the client is connected when it is returned.
C31_BootstrapReadsUnicodeVariable ==
    /\ env \in {None, NotUnicode} => NothingBuilt
    /\ (env \notin {None, NotUnicode} /\ booted # <<>>) =>
          /\ socket_path = Some(env.v)
          /\ \A i \in 1..Len(booted) :
                /\ booted[i] # ConfigError
                /\ booted[i].st = "ok" => booted[i].v = Str(env.v)
          /\ Booted => connected /\ conn # 0 /\ opened > 0

\* witness: the variable is set and connect() has returned a connected
\* client, through which a request was written
C31_Witness ==
    /\ env = Some(SocketPath)
    /\ Booted /\ connected
    /\ \E i \in 1..Len(log) : log[i].e = "write"

\* ------------------------------------------------------------------------ C32
\* C32: every message the server writes while a call is pending is decoded
\* exactly once and in arrival order: none of the messages that arrived
\* back-to-back with the one a read_message returned is dropped with the
\* reader's buffer.
C32_EveryMessageDecoded ==
    \A i \in LogIds : log[i].e # "lost"

\* ------------------------------------------------------------------------ C33
\* Thread t is in the cancel() it began after thread u, whose capability call
\* carries the token id, had written its request; u waits for its response
CancelledWhileWaiting(t, u) ==
    /\ t # u
    /\ CancelWaitsToWrite(t)
    /\ CarriesToken(u)
    /\ WrittenBeforeCancel(u, t)
    /\ BlockedReading(u)

\* C33: when a token whose id was passed to a pending invoke_capability is
\* cancelled from another thread while that call is blocked waiting for its
\* response, the client eventually writes the cancelToken request, whether
\* or not the server sends anything more.
C33_CancelEventuallyWritten ==
    \A t, u \in Threads :
        CancelledWhileWaiting(t, u) ~> (CancelTokenWrites # {})

\* ------------------------------------------------------------------------ C34
\* Call c is blocked in read_message, waiting for a response on a connection
\* that the peer has closed, with nothing left to read
WaitsOnClosed(c) ==
    /\ c \in CallIds
    /\ \E t \in Threads : InCall(t, "recv") /\ connLock = t /\ Top(t).c = c
    /\ conn # 0 /\ conn \in eof
    /\ inbox = <<>>

\* Call c has returned an error
Failed(c) == c \in CallIds /\ calls[c].out.st = "err"

\* C34: when the peer closes the connection while invoke_capability is
\* blocked waiting for its response, the call terminates with an error: it
\* neither blocks forever nor loops on the closed stream.
C34_PeerCloseEndsCall ==
    \A c \in 1..MaxId : WaitsOnClosed(c) ~> Failed(c)

\* witness: two calls waited on the connection when the peer closed it, and
\* both have returned the error of the missing header
C34_Witness ==
    /\ conn # 0 /\ conn \in eof
    /\ Len(calls) = 2
    /\ \A c \in CallIds : calls[c].out = Err("Missing content-length")
    /\ \A c \in CallIds : \E i \in LogIds : log[i].e = "write" /\ log[i].c = c
    /\ \A t \in Threads : Idle(t)

\* ------------------------------------------------------------------------ C35
\* Thread t reads a message that carries a method
ReadsRequest(t) ==
    /\ InCall(t, "recv")
    /\ inbox # <<>>
    /\ Has(Head(inbox), "method")
    /\ stack'[t] # stack[t]

\* Call c has returned on a response: a message without a method whose id is
\* the call's
ReturnedOnResponse(c) ==
    /\ calls[c].resp # Null
    /\ ~Has(calls[c].resp, "method")
    /\ U64Of(calls[c].resp, "id") = calls[c].id

\* Call c failed before it wrote anything
NeverWritten(c) ==
    /\ calls[c].out = NotConnected
    /\ \A i \in LogIds : log[i].e = "write" => log[i].c # c

GivenArgs ==
    LET m == input.v IN
    IF "params" \in DOMAIN m.o /\ m.o["params"].t = "arr" /\ Len(m.o["params"].a) >= 2
    THEN m.o["params"].a[2] ELSE Null

\* C36: the positional arguments passed to the closure are, for an object
\* args, the values of p0, p1, ... up to but excluding the first missing pK
\* (members after a gap or of another name are ignored; without p0 there are
\* none); for any other non-null args, that value alone; for null or absent
\* args, none.
C36_PositionalArgs ==
    Done("request") =>
        LET args == GivenArgs
            given == output.a
        IN  /\ output.t = "arr"
            /\ args.t = "obj" =>
                  /\ \A i \in 1..Len(given) :
                        /\ ("p" \o ToString(i - 1)) \in DOMAIN args.o
                        /\ given[i] = args.o["p" \o ToString(i - 1)]
                  /\ ("p" \o ToString(Len(given))) \notin DOMAIN args.o
            /\ args.t \notin {"obj", "null"} => given = <<args>>
            /\ args.t = "null" => given = <<>>

\* witness: args has p0 (null), no p1, and p2 and x after the gap: the
\* closure is given the one null
C36_Witness ==
    /\ Done("request")
    /\ GivenArgs = Obj(("p0" :> Null) @@ ("p2" :> Num(1)) @@ ("x" :> Str("h1")))
    /\ output = Arr(<<Null>>)

\* ------------------------------------------------------------------------ C37
\* C37: when register(continuation) and cancel() run concurrently on the same
\* token, no continuation is lost: once both calls have returned, every
\* continuation passed to register has run exactly once and the token's
\* list is empty.
C37_NoContinuationLost ==
    (Quiet /\ cancelled) =>
        /\ callbacks = <<>>
        /\ \A i \in 1..Len(registered) : Count(ran, registered[i]) = 1

\* ------------------------------------------------------------------------ C38
\* The invokeCapability requests written whose arguments carry the token id
InvokeWritesWithToken ==
    {i \in LogIds : /\ log[i].e = "write"
                    /\ StrOr(log[i].m, "method", "") = "invokeCapability"
                    /\ Get(log[i].m, "params") = InvokeParams("cap", TokenArgs)}

\* C38: no cancelToken request carrying the id returned by
\* register_cancellation is written on the connection before the
\* invokeCapability request that carries the id, also when the token was
\* already cancelled when it was registered.
C38_CancelTokenAfterInvoke ==
    \A i \in CancelTokenWrites : \E j \in InvokeWritesWithToken : j < i

\* ------------------------------------------------------------------------ C39
\* C39: the ids returned by register_cancellation are pairwise distinct
\* within a process, also for registrations within one clock tick, on
\* different threads, or of the same token twice.
C39_TokenIdsDistinct ==
    \A i, j \in 1..Len(token_ids) : i # j => token_ids[i] # token_ids[j]

\* ------------------------------------------------------------------------ C40
\* C40: in every reachable state, under any interleaving of connect() and
\* disconnect() calls from several threads, connected is true only if the
\* client holds a connection, so that a write following a connect() that
\* returned as a no-op does not fail for want of a connection.
C40_ConnectedHoldsConnection ==
    connected => conn # 0

====
